---- MODULE Spec2Model ----
(***************************************************************************)
(* Model of the Ascendant Vision AI Platform capture session:              *)
(*   - src/src/models/document_entities.py   the entity record             *)
(*   - src/src/services/ai_analysis_service.py  parsing of a raw response  *)
(*   - src/src/ui/results_window.py          merge and projection          *)
(*   - src/src/main.py                       capture workflow, history     *)
(* Confidences are held in hundredths: 0.95 is 95, 1.0 is 100.             *)
(* A Python None is the string "None"; an error of None is NoError.        *)
(***************************************************************************)
EXTENDS Integers, Sequences, FiniteSets, Bags, TLC

VARIABLES
    all_analysis_results,  \* main.py: the session history (list of AnalysisResult)
    UI_CONFIDENCE_MIN,     \* config.UI_CONFIDENCE_MIN, in hundredths
    combined_entities,     \* ResultsWindow.combined_entities (last merge)
    entity_entries,        \* ResultsWindow.entity_entries (last projection)
    workflows,             \* the _run_analysis_workflow tasks in flight (a bag)
    started,               \* how many workflows were started so far
    family,                \* which family of documents this run's captures show
    returned,              \* history variable: per history entry, the response and
                           \*   the result the analysis returned for it
    prior_results,         \* history variable: the history as the last merge read it
    cv_object,             \* per history entry and scalar field, which ConfidenceValue
                           \*   object the entry holds: the first place holding it
    edited                 \* history variable: the value typed over a displayed one
                           \*   and saved since the last merge ("None" without one)

vars == <<all_analysis_results, UI_CONFIDENCE_MIN, combined_entities,
          entity_entries, workflows, started, family, returned, prior_results,
          cv_object, edited>>

-----------------------------------------------------------------------------
(* Generic helpers *)

FoldLeft(op(_, _), base, seq) ==
    LET f[i \in 0..Len(seq)] == IF i = 0 THEN base ELSE op(f[i - 1], seq[i])
    IN  f[Len(seq)]

SetMax(S) == CHOOSE m \in S : \A x \in S : x <= m

Max2(a, b) == IF a >= b THEN a ELSE b

SeqToSet(s) == {s[i] : i \in 1..Len(s)}

-----------------------------------------------------------------------------
(* models/document_entities.py *)

NoError == "None"

ConfidenceValue(v, c) == [value |-> v, confidence |-> c]

Rider(n, p, s) == [Name |-> n, Present |-> p, SignedAttached |-> s]

BorrowerEntry(n, a, r, t) ==
    [Name |-> n, Alias |-> a, Relationship |-> r, TenantInformation |-> t]

\* MortgageDocumentEntities(): LenderName stands for the scalar fields that go
\* through the general branch of every loop over the dataclass fields.
MortgageDocumentEntities ==
    [ LenderName              |-> ConfidenceValue("N/A", 0),
      Borrower                |-> ConfidenceValue(<<>>, 0),
      RidersPresent           |-> ConfidenceValue(<<>>, 0),
      LegalDescriptionPresent |-> ConfidenceValue("No", 0),
      LegalDescriptionDetail  |-> ConfidenceValue("N/A", 0) ]

AnalysisResult(e, s, err, id) ==
    [entities |-> e, summary |-> s, error |-> err, document_id |-> id]

\* Truthiness of result.error (None and "" are both false).
HasError(result) == result.error \notin {NoError, ""}

-----------------------------------------------------------------------------
(* String operations, by what they do on the strings of the model *)

\* str.strip()
Strip(s) ==
    CASE s = " N/A "     -> "N/A"
      [] s = "  "        -> ""
      [] s = " J SMITH"  -> "J SMITH"
      [] s = "No "       -> "No"
      [] OTHER           -> s

\* str.lower()
Lower(s) ==
    CASE s = "N/A"                -> "n/a"
      [] s = "n/a"                -> "n/a"
      [] s = "Not Listed"         -> "not listed"
      [] s = "No"                 -> "no"
      [] s = "Yes"                -> "yes"
      [] s = "YES"                -> "yes"
      [] s = "ACME BANK"          -> "acme bank"
      [] s = "FIRST BANK"         -> "first bank"
      [] s = "UNION BANK"         -> "union bank"
      [] s = "EDITED BANK"        -> "edited bank"
      [] s = "None"               -> "none"
      [] s = "NONE"               -> "none"
      [] s = "Lot 1, Block 2"     -> "lot 1, block 2"
      [] s = "LOT 1, BLOCK 2"     -> "lot 1, block 2"
      [] s = "Tract 9"            -> "tract 9"
      [] s = "Legal description is missing" -> "legal description is missing"
      [] OTHER                    -> s

\* re.sub(r"\s+", " ", s).strip()
CollapseSpaces(s) ==
    CASE s = "LOT 1,  BLOCK 2"  -> "LOT 1, BLOCK 2"
      [] s = "Lot 1,\nBlock 2"  -> "Lot 1, Block 2"
      [] OTHER                  -> Strip(s)

-----------------------------------------------------------------------------
(* ui/results_window.py: validity *)

\* ResultsWindow._is_value_valid on a string value
_is_value_valid(val) ==
    IF val = "None" THEN FALSE
    ELSE /\ Lower(Strip(val)) \notin {"n/a", "not listed", "legal description is missing", ""}
         /\ Strip(val) # "No"

\* threshold = float(getattr(config, 'UI_CONFIDENCE_MIN', 0.9) or 0.9)
DefaultThreshold == 90

merge_threshold(ui_confidence_min) ==
    IF ui_confidence_min = 0 THEN DefaultThreshold ELSE ui_confidence_min

-----------------------------------------------------------------------------
(* config.py *)

RIDER_ALLOWLIST ==
    << "Adjustable Rate Rider", "1-4 Family Rider", "Condominium Rider",
       "Planned Unit Development Rider", "Second Home Rider", "V.A. Rider",
       "Biweekly Payment Rider" >>

\* RIDER_ALIASES.get(key): "None" when the key is absent, "" for an ignored label
RIDER_ALIASES(key) ==
    CASE key = "adjustable rate rider"          -> "Adjustable Rate Rider"
      [] key = "arm rider"                      -> "Adjustable Rate Rider"
      [] key = "1-4 family rider"               -> "1-4 Family Rider"
      [] key = "1 to 4 family rider"            -> "1-4 Family Rider"
      [] key = "one-to-four family rider"       -> "1-4 Family Rider"
      [] key = "one to four family rider"       -> "1-4 Family Rider"
      [] key = "condominium rider"              -> "Condominium Rider"
      [] key = "condo rider"                    -> "Condominium Rider"
      [] key = "planned unit development rider" -> "Planned Unit Development Rider"
      [] key = "planned unit dev rider"         -> "Planned Unit Development Rider"
      [] key = "pud rider"                      -> "Planned Unit Development Rider"
      [] key = "second home rider"              -> "Second Home Rider"
      [] key = "v.a. rider"                     -> "V.A. Rider"
      [] key = "va rider"                       -> "V.A. Rider"
      [] key = "v a rider"                      -> "V.A. Rider"
      [] key = "biweekly payment rider"         -> "Biweekly Payment Rider"
      [] key = "bi-weekly payment rider"        -> "Biweekly Payment Rider"
      [] key = "bi weekly payment rider"        -> "Biweekly Payment Rider"
      [] key = "other(s) [specify]"             -> ""
      [] key = "others"                         -> ""
      [] key = "other"                          -> ""
      [] OTHER                                  -> "None"

\* str.lower() on rider names
LowerRider(s) ==
    CASE s = "Adjustable Rate Rider"          -> "adjustable rate rider"
      [] s = "1-4 Family Rider"               -> "1-4 family rider"
      [] s = "Condominium Rider"              -> "condominium rider"
      [] s = "Planned Unit Development Rider" -> "planned unit development rider"
      [] s = "Second Home Rider"              -> "second home rider"
      [] s = "V.A. Rider"                     -> "v.a. rider"
      [] s = "Biweekly Payment Rider"         -> "biweekly payment rider"
      [] s = "Condo Rider"                    -> "condo rider"
      [] s = "Condo  Rider"                   -> "condo  rider"
      [] s = "ARM Rider"                      -> "arm rider"
      [] s = "Solar Rider"                    -> "solar rider"
      [] s = "Other(s) [specify]"             -> "other(s) [specify]"
      [] OTHER                                -> Lower(s)

\* re.sub(r"\s+", " ", re.sub(<unicode dashes>, "-", raw)).strip()
NormalizeRiderSpacing(s) ==
    CASE s = "Condo  Rider"    -> "Condo Rider"
      [] s = "condo  rider"    -> "condo rider"
      [] OTHER                 -> Strip(s)

\* Position of a string in Python's string order, for the strings that are sorted
SortRank(s) ==
    CASE s = "1-4 Family Rider"               -> 1
      [] s = "Adjustable Rate Rider"          -> 2
      [] s = "Biweekly Payment Rider"         -> 3
      [] s = "Condo  Rider"                   -> 4
      [] s = "Condo Rider"                    -> 5
      [] s = "Condominium Rider"              -> 6
      [] s = "Other(s) [specify]"             -> 7
      [] s = "Planned Unit Development Rider" -> 8
      [] s = "Second Home Rider"              -> 9
      [] s = "Solar Rider"                    -> 10
      [] s = "V.A. Rider"                     -> 11
      [] s = "johnsmith"                      -> 12
      [] s = "maryjones"                      -> 13
      [] OTHER                                -> 14

\* sorted(S) for a set of strings
Sorted(S) ==
    LET pick[T \in SUBSET S] ==
            IF T = {} THEN <<>>
            ELSE LET m == CHOOSE x \in T : \A y \in T : SortRank(x) <= SortRank(y)
                 IN  <<m>> \o pick[T \ {m}]
    IN  pick[S]

-----------------------------------------------------------------------------
(* ui/results_window.py: canonicalization and keys *)

\* ResultsWindow._canonicalize_rider_name: "None" for no canonical form
_canonicalize_rider_name(name) ==
    LET raw     == Strip(name)
        lowered == LowerRider(NormalizeRiderSpacing(raw))
        aliased == RIDER_ALIASES(lowered)
        hits    == {i \in 1..Len(RIDER_ALLOWLIST) : lowered = LowerRider(RIDER_ALLOWLIST[i])}
        canon   == IF aliased # "None" THEN aliased
                   ELSE IF hits # {} THEN RIDER_ALLOWLIST[CHOOSE i \in hits : \A k \in hits : i <= k]
                   ELSE "None"
    IN  IF raw = "" THEN "None"
        ELSE IF canon = "" THEN "None"
        ELSE canon

\* ResultsWindow._normalize_string_for_comparison: re.sub(r'[^a-z0-9]', '', s.lower())
_normalize_string_for_comparison(s) ==
    CASE s = "JOHN SMITH"  -> "johnsmith"
      [] s = "JOHN-SMITH"  -> "johnsmith"
      [] s = "MARY JONES"  -> "maryjones"
      [] s = "---"         -> ""
      [] OTHER             -> Lower(s)

InAllowlist(name) == name \in SeqToSet(RIDER_ALLOWLIST)
-----------------------------------------------------------------------------
(* ui/results_window.py: ResultsWindow._combine_analysis_results *)

\* Lines 262-263: the whitespace-normalized, lowercased text segments are compared by
normalize_segment(s) == Lower(CollapseSpaces(s))

\* Lines 251-268: the Legal Description segments, the detail texts that are
\* valid and meet the threshold, deduplicated by normalized text, in capture
\* order (a list of [text, conf])
legal_segments(all_results, threshold) ==
    LET step(segs, res) ==
            IF HasError(res) THEN segs
            ELSE IF /\ _is_value_valid(res.entities.LegalDescriptionDetail.value)
                    /\ res.entities.LegalDescriptionDetail.confidence >= threshold
                    /\ normalize_segment(res.entities.LegalDescriptionDetail.value) # ""
                    /\ \A i \in 1..Len(segs) :
                           normalize_segment(segs[i].text) #
                               normalize_segment(res.entities.LegalDescriptionDetail.value)
            THEN Append(segs, [text |-> res.entities.LegalDescriptionDetail.value,
                               conf |-> res.entities.LegalDescriptionDetail.confidence])
            ELSE segs
    IN  FoldLeft(step, <<>>, all_results)

\* "\n\n".join(legal_segments)
JoinSegments(segs) ==
    LET j[i \in 0..Len(segs)] ==
            IF i = 0 THEN ""
            ELSE IF i = 1 THEN segs[1].text
            ELSE j[i - 1] \o "\n\n" \o segs[i].text
    IN  j[Len(segs)]

\* Lines 269-272 and 446-451: the two Legal Description fields of the merged record
legal_description_fields(segs) ==
    IF Len(segs) > 0
    THEN [ detail  |-> ConfidenceValue(JoinSegments(segs),
                                       SetMax({segs[i].conf : i \in 1..Len(segs)})),
           present |-> ConfidenceValue("Yes", SetMax({segs[i].conf : i \in 1..Len(segs)})) ]
    ELSE [ detail  |-> MortgageDocumentEntities.LegalDescriptionDetail,
           present |-> ConfidenceValue("No", 0) ]

\* Lines 438-444: the best value is kept when it is valid and meets the threshold
best_or_default(best_value, field_name, threshold) ==
    IF _is_value_valid(best_value.value) /\ best_value.confidence >= threshold
    THEN best_value
    ELSE MortgageDocumentEntities[field_name]

\* A variant of combine_scalar that reads error captures as well
combine_scalar_reading_errors(all_results, field_name, threshold) ==
    LET step(best_value, result) ==
            IF \/ ~_is_value_valid(result.entities[field_name].value)
               \/ result.entities[field_name].confidence < threshold
            THEN best_value
            ELSE IF \/ ~_is_value_valid(best_value.value)
                    \/ result.entities[field_name].confidence > best_value.confidence
            THEN result.entities[field_name]
            ELSE best_value
    IN  best_or_default(FoldLeft(step, MortgageDocumentEntities[field_name], all_results),
                        field_name, threshold)

\* The general branch (lines 415-444): the first of the valid values that meet
\* the threshold with the highest confidence
combine_scalar(all_results, field_name, threshold) ==
    LET step(best_value, result) ==
            IF HasError(result) THEN best_value
            ELSE IF \/ ~_is_value_valid(result.entities[field_name].value)
                    \/ result.entities[field_name].confidence < threshold
            THEN best_value
            ELSE IF \/ ~_is_value_valid(best_value.value)
                    \/ result.entities[field_name].confidence > best_value.confidence
            THEN result.entities[field_name]
            ELSE best_value
    IN  best_or_default(FoldLeft(step, MortgageDocumentEntities[field_name], all_results),
                        field_name, threshold)

\* A rider object as the rider loop reads it
rider_is_signed(rider_obj) == Lower(Strip(rider_obj.SignedAttached.value)) = "yes"

\* Lines 383-395: the rider under its canonical name takes the slot of that
\* name when the slot is free or it has the higher Name confidence
put_rider(riders, canon_name, rider_obj) ==
    IF canon_name = "None" \/ ~InAllowlist(canon_name) THEN riders
    ELSE IF \/ canon_name \notin DOMAIN riders
            \/ rider_obj.Name.confidence > riders[canon_name].Name.confidence
    THEN [k \in DOMAIN riders \cup {canon_name} |->
             IF k = canon_name
             THEN Rider(ConfidenceValue(canon_name, rider_obj.Name.confidence),
                        rider_obj.Present, rider_obj.SignedAttached)
             ELSE riders[k]]
    ELSE riders

\* Lines 397-402: the riders of the slots, by sorted canonical name
riders_by_name(riders, keys, conf) ==
    IF keys = <<>> THEN MortgageDocumentEntities.RidersPresent
    ELSE ConfidenceValue([i \in 1..Len(keys) |-> riders[keys[i]]], conf)

\* The RidersPresent branch (lines 358-402): the signed riders whose name is
\* valid, meets the threshold and has a canonical form in the allow-list
combine_riders(all_results, threshold) ==
    LET add(riders, rider_obj) ==
            IF /\ rider_is_signed(rider_obj)
               /\ rider_obj.Name.confidence >= threshold
               /\ _is_value_valid(rider_obj.Name.value)
            THEN put_rider(riders, _canonicalize_rider_name(rider_obj.Name.value), rider_obj)
            ELSE riders
        step(acc, result) ==
            IF HasError(result) THEN acc
            ELSE [ riders |-> FoldLeft(add, acc.riders, result.entities.RidersPresent.value),
                   conf   |-> Max2(acc.conf, result.entities.RidersPresent.confidence) ]
        slots(final) == riders_by_name(final.riders, Sorted(DOMAIN final.riders), final.conf)
    IN  slots(FoldLeft(step, [riders |-> [k \in {} |-> 0], conf |-> 0], all_results))

\* list(dict.fromkeys([str(x).strip() for x in a1 + a2 if str(x).strip()]))
alias_union(a1, a2) ==
    LET step(acc, x) ==
            IF Strip(x) = "" \/ Strip(x) \in SeqToSet(acc) THEN acc
            ELSE Append(acc, Strip(x))
    IN  FoldLeft(step, <<>>, a1 \o a2)

\* The BorrowerEntry objects of the non-error results, <<result index, position>>,
\* in the order the Borrower loop visits them
borrower_refs(all_results) ==
    LET step(acc, i) ==
            IF HasError(all_results[i]) THEN acc
            ELSE acc \o [j \in 1..Len(all_results[i].entities.Borrower.value) |-> <<i, j>>]
    IN  FoldLeft(step, <<>>, [i \in 1..Len(all_results) |-> i])

borrower_at(results, ref) == results[ref[1]].entities.Borrower.value[ref[2]]

\* Lines 301-322: on adoption the entry's low-confidence sub-fields are cleared,
\* in place, in the BorrowerEntry object the history holds
clear_low_confidence(b, threshold) ==
    [b EXCEPT
       !.Alias.value             = IF b.Alias.confidence < threshold THEN <<>> ELSE @,
       !.Relationship.value      = IF b.Relationship.confidence < threshold THEN "N/A" ELSE @,
       !.TenantInformation.value = IF b.TenantInformation.confidence < threshold THEN "N/A" ELSE @]

\* Lines 326-336: the aliases are united when the entry's alias confidence
\* meets the threshold
merge_alias(existing, b, threshold) ==
    IF b.Alias.confidence >= threshold
    THEN [existing EXCEPT
            !.Alias.value      = alias_union(existing.Alias.value, b.Alias.value),
            !.Alias.confidence = Max2(existing.Alias.confidence, b.Alias.confidence)]
    ELSE existing

\* Lines 337-342 and 343-349: Relationship, TenantInformation by higher confidence
merge_sub_field(existing, b, sub_field, threshold) ==
    IF /\ b[sub_field].confidence >= threshold
       /\ b[sub_field].confidence > existing[sub_field].confidence
    THEN [existing EXCEPT ![sub_field] = b[sub_field]]
    ELSE existing

\* Lines 325-349: an entry that does not take the slot is merged into the
\* one that holds it
merge_into_existing(existing, b, threshold) ==
    merge_sub_field(
        merge_sub_field(merge_alias(existing, b, threshold), b, "Relationship", threshold),
        b, "TenantInformation", threshold)

\* Lines 287-349 for one BorrowerEntry b, found at ref, of key key; acc holds
\* the history as the loop has left it so far and the slot of every key
place_borrower(acc, ref, b, key, threshold) ==
    IF \/ ~_is_value_valid(b.Name.value)
       \/ b.Name.confidence < threshold
       \/ key = ""
    THEN acc
    ELSE IF \/ key \notin DOMAIN acc.slots
            \/ b.Name.confidence > borrower_at(acc.results, acc.slots[key]).Name.confidence
    THEN [ results |-> [acc.results EXCEPT ![ref[1]].entities.Borrower.value[ref[2]] =
                           clear_low_confidence(b, threshold)],
           slots   |-> [k \in DOMAIN acc.slots \cup {key} |->
                           IF k = key THEN ref ELSE acc.slots[k]] ]
    ELSE [ results |-> [acc.results EXCEPT
                           ![acc.slots[key][1]].entities.Borrower.value[acc.slots[key][2]] =
                               merge_into_existing(@, b, threshold)],
           slots   |-> acc.slots ]

\* Lines 351-355: the entries of the slots, by sorted key, under the highest
\* list confidence of the non-error results
borrowers_by_key(results, slots, keys, all_results) ==
    IF keys = <<>> THEN MortgageDocumentEntities.Borrower
    ELSE ConfidenceValue(
             [i \in 1..Len(keys) |-> borrower_at(results, slots[keys[i]])],
             SetMax({0} \cup {all_results[i].entities.Borrower.confidence :
                                 i \in {k \in 1..Len(all_results) : ~HasError(all_results[k])}}))

\* The Borrower branch (lines 275-355). The loop works on the objects of the
\* history itself, so it returns the history as the loop leaves it (results)
\* next to the combined list (value).
combine_borrowers(all_results, threshold) ==
    LET step(acc, ref) ==
            place_borrower(acc, ref, borrower_at(acc.results, ref),
                           _normalize_string_for_comparison(
                               borrower_at(acc.results, ref).Name.value),
                           threshold)
        outcome(final) ==
            [ results |-> final.results,
              value   |-> borrowers_by_key(final.results, final.slots,
                                           Sorted(DOMAIN final.slots), all_results) ]
    IN  outcome(FoldLeft(step, [results |-> all_results, slots |-> [k \in {} |-> <<>>]],
                         borrower_refs(all_results)))

\* Lines 235-453 once the threshold, the segments and the borrowers are known
combined_record(all_results, threshold, legal, borrowers) ==
    IF \A i \in 1..Len(all_results) : HasError(all_results[i])
    THEN [combined |-> MortgageDocumentEntities, results |-> all_results]
    ELSE [ combined |->
             [ LenderName              |-> combine_scalar(all_results, "LenderName", threshold),
               Borrower                |-> borrowers.value,
               RidersPresent           |-> combine_riders(all_results, threshold),
               LegalDescriptionPresent |-> legal.present,
               LegalDescriptionDetail  |-> legal.detail ],
           results |-> borrowers.results ]

\* ResultsWindow._combine_analysis_results: the merged record (combined) and the
\* history as the call leaves it (results)
_combine_analysis_results(all_results, ui_confidence_min) ==
    combined_record(
        all_results, merge_threshold(ui_confidence_min),
        legal_description_fields(legal_segments(all_results, merge_threshold(ui_confidence_min))),
        combine_borrowers(all_results, merge_threshold(ui_confidence_min)))
-----------------------------------------------------------------------------
(* ui/results_window.py: ResultsWindow._display_entity_fields *)

\* sep.join(seq)
Join(seq, sep) ==
    LET j[i \in 0..Len(seq)] ==
            IF i = 0 THEN ""
            ELSE IF i = 1 THEN seq[1]
            ELSE j[i - 1] \o sep \o seq[i]
    IN  j[Len(seq)]

\* str.upper()
Upper(s) ==
    CASE s = "Husband"        -> "HUSBAND"
      [] s = "Wife"           -> "WIFE"
      [] s = "Joint Tenants"  -> "JOINT TENANTS"
      [] s = "n/a"            -> "N/A"
      [] OTHER                -> s

\* list(dict.fromkeys(seq))
Dedup(seq) ==
    FoldLeft(LAMBDA acc, x : IF x \in SeqToSet(acc) THEN acc ELSE Append(acc, x), <<>>, seq)

SelectSeqBy(seq, Test(_)) ==
    FoldLeft(LAMBDA acc, x : IF Test(x) THEN Append(acc, x) ELSE acc, <<>>, seq)

\* A rider of a list counts as signed and shown (lines 470-477, 542-548)
rider_shown(r, ui_confidence_min) ==
    /\ _is_value_valid(r.Name.value)
    /\ rider_is_signed(r)
    /\ r.Name.confidence >= ui_confidence_min

\* Whether a name has a canonical form in the allow-list
is_canonical(canon) == canon # "None" /\ InAllowlist(canon)

\* A variant of unclassified_names in which the riders without a canonical
\* form are dropped
unclassified_names_dropped(all_results, ui_confidence_min) == <<>>

\* Lines 484-504 and 556-576: the raw names of the signed, high-confidence
\* riders of the non-error results that have no canonical form in the allow-list
unclassified_names(all_results, ui_confidence_min) ==
    LET step(acc, r) ==
            IF /\ rider_shown(r, ui_confidence_min)
               /\ ~is_canonical(_canonicalize_rider_name(r.Name.value))
            THEN Append(acc, r.Name.value)
            ELSE acc
        of_result(acc, res) ==
            IF HasError(res) THEN acc
            ELSE FoldLeft(step, acc, res.entities.RidersPresent.value)
    IN  FoldLeft(of_result, <<>>, all_results)

\* Lines 536-585: the "Checked Riders" string
riders_value_str(cv, all_results, ui_confidence_min) ==
    LET step(acc, r) ==
            IF /\ rider_shown(r, ui_confidence_min)
               /\ is_canonical(_canonicalize_rider_name(r.Name.value))
            THEN Append(acc, _canonicalize_rider_name(r.Name.value))
            ELSE acc
    IN  Join(Sorted(SeqToSet(Dedup(FoldLeft(step, <<>>, cv.value)
                                   \o unclassified_names(all_results, ui_confidence_min)))),
             ", ")

\* Lines 466-511: whether RidersPresent is among the displayed fields
riders_included(cv, all_results, ui_confidence_min) ==
    \/ \E i \in 1..Len(cv.value) : rider_shown(cv.value[i], ui_confidence_min)
    \/ Len(unclassified_names(all_results, ui_confidence_min)) > 0

\* Lines 600-633: one borrower as "NAME; aliases; RELATIONSHIP; TENANCY"
borrower_item(b, alias_str, ui_confidence_min) ==
    Join(<<Upper(b.Name.value)>>
         \o (IF alias_str # "" /\ b.Alias.confidence >= ui_confidence_min
             THEN <<alias_str>> ELSE <<>>)
         \o (IF /\ _is_value_valid(Upper(b.Relationship.value))
                /\ b.Relationship.confidence >= ui_confidence_min
             THEN <<Upper(b.Relationship.value)>> ELSE <<>>)
         \o (IF /\ _is_value_valid(Upper(b.TenantInformation.value))
                /\ b.TenantInformation.confidence >= ui_confidence_min
             THEN <<Upper(b.TenantInformation.value)>> ELSE <<>>),
         "; ")

\* The "Borrowers" string, were an entry listed whatever the confidence of
\* its name
borrowers_value_str_any_confidence(cv, ui_confidence_min) ==
    LET step(acc, b) ==
            IF _is_value_valid(Upper(b.Name.value))
            THEN Append(acc, borrower_item(b, Join(SelectSeqBy(b.Alias.value, _is_value_valid), ", "),
                                           ui_confidence_min))
            ELSE acc
    IN  Join(FoldLeft(step, <<>>, cv.value), ", ")

\* Lines 586-641: the "Borrowers" string
borrowers_value_str(cv, ui_confidence_min) ==
    LET step(acc, b) ==
            IF /\ _is_value_valid(Upper(b.Name.value))
               /\ b.Name.confidence >= ui_confidence_min
            THEN Append(acc, borrower_item(b, Join(SelectSeqBy(b.Alias.value, _is_value_valid), ", "),
                                           ui_confidence_min))
            ELSE acc
    IN  Join(FoldLeft(step, <<>>, cv.value), ", ")

\* Lines 513-526: whether Borrower is among the displayed fields
borrowers_included(cv, ui_confidence_min) ==
    \E i \in 1..Len(cv.value) :
        /\ cv.value[i].Name.confidence >= ui_confidence_min
        /\ _is_value_valid(cv.value[i].Name.value)

\* Lines 643-662: the editable fields by display name, the fields whose
\* string is valid
editable_fields(lender, lender_shown, riders, riders_shown, borrowers, borrowers_shown) ==
    [k \in (IF lender_shown /\ _is_value_valid(lender) THEN {"Lender"} ELSE {})
           \cup (IF riders_shown /\ _is_value_valid(riders) THEN {"Checked Riders"} ELSE {})
           \cup (IF borrowers_shown /\ _is_value_valid(borrowers) THEN {"Borrowers"} ELSE {})
     |-> CASE k = "Lender"         -> lender
           [] k = "Checked Riders" -> riders
           [] k = "Borrowers"      -> borrowers]

\* ResultsWindow._display_entity_fields: the editable fields by display name
\* (config.ENTITY_DISPLAY_NAMES), each with the string shown
_display_entity_fields(entities_to_display, all_results, ui_confidence_min) ==
    editable_fields(
        entities_to_display.LenderName.value,
        /\ _is_value_valid(entities_to_display.LenderName.value)
        /\ entities_to_display.LenderName.confidence >= ui_confidence_min,
        riders_value_str(entities_to_display.RidersPresent, all_results, ui_confidence_min),
        riders_included(entities_to_display.RidersPresent, all_results, ui_confidence_min),
        borrowers_value_str(entities_to_display.Borrower, ui_confidence_min),
        borrowers_included(entities_to_display.Borrower, ui_confidence_min))
-----------------------------------------------------------------------------
(* services/ai_analysis_service.py *)

\* max(0.0, min(1.0, confidence))
Clamp(confidence) ==
    IF confidence < 0 THEN 0 ELSE IF confidence > 100 THEN 100 ELSE confidence

\* isinstance(x, dict) on a raw JSON value: a value of another JSON type is
\* held as a record that says which
IsDict(x) == "json_type" \notin DOMAIN x

\* Whether float() takes the confidence of a raw {value, confidence} object:
\* a confidence that is a text is held apart, under confidence_text
IsNumber(raw_cv) == "confidence_text" \notin DOMAIN raw_cv

\* float(confidence or 0.0) inside try/except (ValueError, TypeError), which
\* gives 0.0 (lines 277-280, 364-370, 385-391, 396-402, 440-445)
float_or_zero(raw_cv) == IF IsNumber(raw_cv) THEN raw_cv.confidence ELSE 0

\* AIAnalysisService._normalize_yes_no
_normalize_yes_no(val) ==
    LET s == Lower(Strip(val))
    IN  IF s \in {"y", "yes", "true", "1", "checked", "present"} THEN "Yes"
        ELSE IF s \in {"n", "no", "false", "0", "unchecked", "absent"} THEN "No"
        ELSE "N/A"

-----------------------------------------------------------------------------
(* services/ai_analysis_service.py: the normalizers that read a text character
   by character. A str is held as the sequence of its characters, next to its
   type; None is the value of type NoneType. *)

Str(chars) == [type |-> "str", chars |-> chars]

\* None; chars is what str() makes of it
None == [type |-> "NoneType", chars |-> <<"N", "o", "n", "e">>]

NA == Str(<<"N", "/", "A">>)

\* The decimal digits, each at its value plus one
DigitChars == <<"0", "1", "2", "3", "4", "5", "6", "7", "8", "9">>

IsDigit(c) == c \in SeqToSet(DigitChars)

\* \b before position i of chars (i = Len(chars) + 1 is the end); \w is a
\* letter or a digit among the characters of the model
boundary(chars, i) ==
    LET w(k) == k \in 1..Len(chars) /\ chars[k] \notin {" ", ":", ".", "-", "/", ",", ";"}
    IN  w(i - 1) # w(i)

\* int() of a text of digits
int(chars) ==
    LET f[i \in 0..Len(chars)] ==
            IF i = 0 THEN 0
            ELSE 10 * f[i - 1] + (CHOOSE n \in 0..9 : DigitChars[n + 1] = chars[i])
    IN  f[Len(chars)]

\* f"{n:02d}" of 0 <= n <= 99
two_digits(n) == <<DigitChars[(n \div 10) + 1], DigitChars[(n % 10) + 1]>>

\* str.strip()
RECURSIVE str_strip(_)
str_strip(chars) ==
    IF chars # << >> /\ Head(chars) = " " THEN str_strip(Tail(chars))
    ELSE IF chars # << >> /\ chars[Len(chars)] = " "
         THEN str_strip(SubSeq(chars, 1, Len(chars) - 1))
    ELSE chars

\* str.upper()
str_upper(chars) ==
    LET lower == <<"a", "b", "c", "d", "e", "f", "g", "h", "i", "j", "k", "l", "m", "n",
                  "o", "p", "q", "r", "s", "t", "u", "v", "w", "x", "y", "z">>
        upper == <<"A", "B", "C", "D", "E", "F", "G", "H", "I", "J", "K", "L", "M", "N",
                  "O", "P", "Q", "R", "S", "T", "U", "V", "W", "X", "Y", "Z">>
    IN  [i \in 1..Len(chars) |->
            IF \E k \in 1..26 : lower[k] = chars[i]
            THEN upper[CHOOSE k \in 1..26 : lower[k] = chars[i]]
            ELSE chars[i]]

\* str.replace(old, new)
RECURSIVE str_replace(_, _, _)
str_replace(chars, old, new) ==
    IF Len(chars) < Len(old) THEN chars
    ELSE IF SubSeq(chars, 1, Len(old)) = old
         THEN new \o str_replace(SubSeq(chars, Len(old) + 1, Len(chars)), old, new)
    ELSE <<Head(chars)>> \o str_replace(Tail(chars), old, new)

\* Lines 650-655: the positions where \b(AM|PM)\b matches
ampm_matches(norm) ==
    {i \in 1..(Len(norm) - 1) :
        /\ norm[i] \in {"A", "P"}
        /\ norm[i + 1] = "M"
        /\ boundary(norm, i)
        /\ boundary(norm, i + 2)}

\* Lines 657-679: the hour, minute and second read from the text, in the
\* order tried: HH:MM[:SS] at its leftmost match, the digits alone as HHMM or
\* HHMMSS (the text of digits has a word boundary at its two ends only, so
\* the match is the whole of it), an hour alone next to AM or PM
time_fields(norm, ampm) ==
    LET digits(i, n) == \A k \in i..(i + n - 1) : k <= Len(norm) /\ IsDigit(norm[k])
        is(i, c) == i <= Len(norm) /\ norm[i] = c
        m(i, hl, sec) ==
            /\ boundary(norm, i)
            /\ digits(i, hl)
            /\ is(i + hl, ":")
            /\ digits(i + hl + 1, 2)
            /\ sec => (is(i + hl + 3, ":") /\ digits(i + hl + 4, 2))
            /\ boundary(norm, i + hl + 3 + (IF sec THEN 3 ELSE 0))
        starts == {i \in 1..Len(norm) : \E hl \in {1, 2}, sec \in BOOLEAN : m(i, hl, sec)}
        i1 == CHOOSE i \in starts : \A k \in starts : i <= k
        hl1 == CHOOSE hl \in {1, 2} : \E sec \in BOOLEAN : m(i1, hl, sec)
        only == SelectSeq(norm, IsDigit)
        hl2 == IF Len(only) \in {4, 6} THEN 2 ELSE 1
        m3(i, n) == boundary(norm, i) /\ digits(i, n) /\ boundary(norm, i + n)
        hours == {i \in 1..Len(norm) : \E n \in {1, 2} : m3(i, n)}
        i3 == CHOOSE i \in hours : \A k \in hours : i <= k
    IN  IF starts # {}
        THEN [matched |-> TRUE,
              hh |-> int(SubSeq(norm, i1, i1 + hl1 - 1)),
              mm |-> int(SubSeq(norm, i1 + hl1 + 1, i1 + hl1 + 2)),
              ss |-> IF m(i1, hl1, TRUE)
                     THEN int(SubSeq(norm, i1 + hl1 + 4, i1 + hl1 + 5)) ELSE 0]
        ELSE IF Len(only) \in 3..6
        THEN [matched |-> TRUE,
              hh |-> int(SubSeq(only, 1, hl2)),
              mm |-> int(SubSeq(only, hl2 + 1, hl2 + 2)),
              ss |-> IF Len(only) >= 5 THEN int(SubSeq(only, hl2 + 3, hl2 + 4)) ELSE 0]
        ELSE IF hours # {} /\ ampm # "None"
        THEN [matched |-> TRUE,
              hh |-> int(SubSeq(norm, i3, i3 + (CHOOSE n \in {1, 2} : m3(i3, n)) - 1)),
              mm |-> 0, ss |-> 0]
        ELSE [matched |-> FALSE, hh |-> 0, mm |-> 0, ss |-> 0]

\* The text without its AM and PM, stripped (line 655)
without_ampm(norm) ==
    LET kept == {i \in 1..Len(norm) : i \notin ampm_matches(norm) /\ i - 1 \notin ampm_matches(norm)}
    IN  str_strip([k \in 1..Cardinality(kept) |->
                      norm[CHOOSE i \in kept : Cardinality({j \in kept : j <= i}) = k]])

\* Lines 643-649: upper case, A.M. and P.M. without their dots and spaces, a
\* dot between two digits turned into a colon
normalized_separators(txt) ==
    LET norm == str_replace(str_replace(str_replace(str_replace(str_upper(txt),
                    <<"A", ".", "M", ".">>, <<"A", "M">>),
                    <<"P", ".", "M", ".">>, <<"P", "M">>),
                    <<"A", " ", "M">>, <<"A", "M">>),
                    <<"P", " ", "M">>, <<"P", "M">>)
    IN  [i \in 1..Len(norm) |->
            IF /\ norm[i] = "."
               /\ i > 1 /\ IsDigit(norm[i - 1])
               /\ i < Len(norm) /\ IsDigit(norm[i + 1])
            THEN ":" ELSE norm[i]]

\* The text HH:MM:SS, were the hour not checked after the 12-hour conversion
hhmmss_of_any_hour(t, ampm) ==
    LET hh == IF ampm = "AM" /\ t.hh = 12 THEN 0
              ELSE IF ampm = "PM" /\ t.hh < 12 THEN t.hh + 12
              ELSE t.hh
    IN  IF ~t.matched \/ t.mm > 59 \/ t.ss > 59 THEN None
        ELSE Str(two_digits(hh) \o <<":">> \o two_digits(t.mm) \o <<":">> \o two_digits(t.ss))

\* Lines 681-697: the ranges, the 12-hour conversion, the text HH:MM:SS
hhmmss(t, ampm) ==
    LET hh == IF ampm = "AM" /\ t.hh = 12 THEN 0
              ELSE IF ampm = "PM" /\ t.hh < 12 THEN t.hh + 12
              ELSE t.hh
    IN  IF ~t.matched \/ t.mm > 59 \/ t.ss > 59 \/ hh > 23 THEN None
        ELSE Str(two_digits(hh) \o <<":">> \o two_digits(t.mm) \o <<":">> \o two_digits(t.ss))

\* Lines 650-653: AM or PM, as \b(AM|PM)\b first matches
ampm_of(norm) ==
    IF ampm_matches(norm) = {} THEN "None"
    ELSE IF norm[CHOOSE i \in ampm_matches(norm) : \A k \in ampm_matches(norm) : i <= k] = "A"
         THEN "AM" ELSE "PM"

\* AIAnalysisService._try_parse_time_to_hhmmss
_try_parse_time_to_hhmmss(s) ==
    IF s.type # "str" \/ str_strip(s.chars) = << >> THEN None
    ELSE LET norm == normalized_separators(str_strip(s.chars))
         IN  hhmmss(time_fields(without_ampm(norm), ampm_of(norm)), ampm_of(norm))

-----------------------------------------------------------------------------
(* services/ai_analysis_service.py: the recording fields *)

\* Lines 438-459 on a field whose value is a str or null: a missing value is
\* "N/A", an empty one too; the confidence is clamped
parsed_text_field(raw_field_data) ==
    ConfidenceValue(IF "value" \notin DOMAIN raw_field_data THEN NA
                    ELSE IF raw_field_data.value = Str(<< >>) THEN NA
                    ELSE raw_field_data.value,
                    Clamp(raw_field_data.confidence))

\* Lines 468-471: _digits_only
_digits_only(s) == SelectSeq(IF s.type = "NoneType" THEN << >> ELSE s.chars, IsDigit)

\* str(n) of a natural number
RECURSIVE str_of_int(_)
str_of_int(n) ==
    IF n < 10 THEN <<DigitChars[n + 1]>> ELSE str_of_int(n \div 10) \o <<DigitChars[(n % 10) + 1]>>

\* Lines 473-480: RecordingBook, its digits when they are one to six
sanitized_book(rb_cv) ==
    IF Len(_digits_only(rb_cv.value)) \in 1..6
    THEN ConfidenceValue(Str(_digits_only(rb_cv.value)), rb_cv.confidence)
    ELSE ConfidenceValue(NA, 0)

\* Lines 482-500: RecordingPage, a range a-b of one to five digits each with
\* 0 < a <= b, or its digits when they are one to five
sanitized_page(rp_cv) ==
    LET rp_str == IF rp_cv.value = None \/ rp_cv.value = Str(<< >>) THEN << >>
                  ELSE rp_cv.value.chars
        dashes == {i \in 1..Len(rp_str) : rp_str[i] = "-"}
        dash   == CHOOSE i \in dashes : TRUE
        left   == str_strip(SubSeq(rp_str, 1, dash - 1))
        right  == str_strip(SubSeq(rp_str, dash + 1, Len(rp_str)))
        number(t) == Len(t) \in 1..5 /\ \A i \in 1..Len(t) : IsDigit(t[i])
    IN  IF Cardinality(dashes) = 1 /\ number(left) /\ number(right)
        THEN IF int(left) > 0 /\ int(right) >= int(left)
             THEN ConfidenceValue(Str(str_of_int(int(left)) \o <<"-">> \o str_of_int(int(right))),
                                  rp_cv.confidence)
             ELSE ConfidenceValue(NA, 0)
        ELSE IF Len(_digits_only(Str(rp_str))) \in 1..5
        THEN ConfidenceValue(Str(_digits_only(Str(rp_str))), rp_cv.confidence)
        ELSE ConfidenceValue(NA, 0)

\* Lines 502-525: RecordingDocumentNumber after the first pass
sanitized_document_number(rdn_cv, min_cv) ==
    LET rdn_digits == _digits_only(rdn_cv.value)
        min_digits == _digits_only(min_cv.value)
    IN  IF rdn_digits = << >> THEN ConfidenceValue(NA, 0)
        ELSE IF Len(rdn_digits) = 18 \/ (min_digits # << >> /\ rdn_digits = min_digits)
        THEN ConfidenceValue(NA, 0)
        ELSE IF Len(rdn_digits) < 6 THEN ConfidenceValue(NA, 0)
        ELSE ConfidenceValue(Str(rdn_digits), rdn_cv.confidence)

\* Lines 527-539: the second pass, which puts the stripped text of the raw
\* value back unless its digits are eighteen or those of the MIN; rdn_cv is
\* the value as parsed, before the first pass
restored_document_number(raw_field_data, rdn_cv, min_cv, sanitized) ==
    LET raw_is_str == /\ "value" \in DOMAIN raw_field_data
                      /\ raw_field_data.value.type = "str"
        s == str_strip(raw_field_data.value.chars)
    IN  IF /\ raw_is_str
           /\ s # << >>
           /\ ~(\/ Len(_digits_only(Str(s))) = 18
                 \/ /\ _digits_only(min_cv.value) # << >>
                    /\ _digits_only(Str(s)) = _digits_only(min_cv.value))
        THEN ConfidenceValue(Str(s), rdn_cv.confidence)
        ELSE sanitized

\* AIAnalysisService._try_parse_date on a text M/D/YYYY, the first of its
\* formats; the texts of the model that are no date have no digits, and none
\* of the formats nor the search of line 615 takes them
_try_parse_date(s) ==
    LET txt == str_strip(s.chars)
        slashes == {i \in 1..Len(txt) : txt[i] = "/"}
        first == CHOOSE i \in slashes : \A k \in slashes : i <= k
        last  == CHOOSE i \in slashes : \A k \in slashes : i >= k
        mm == SubSeq(txt, 1, first - 1)
        dd == SubSeq(txt, first + 1, last - 1)
        yy == SubSeq(txt, last + 1, Len(txt))
        number(t, lens) == Len(t) \in lens /\ \A i \in 1..Len(t) : IsDigit(t[i])
    IN  IF s.type # "str" \/ s.chars = << >> THEN None
        ELSE IF /\ Cardinality(slashes) = 2
                /\ number(mm, {1, 2}) /\ number(dd, {1, 2}) /\ number(yy, {4})
                /\ int(mm) \in 1..12 /\ int(dd) \in 1..28  \* a day of every month
        THEN Str(two_digits(int(mm)) \o <<"/">> \o two_digits(int(dd)) \o <<"/">> \o yy)
        ELSE None

\* Lines 549-566: whether a recording field holds something else than "N/A"
has_rec(ent) ==
    \E f \in {"RecordingDocumentNumber", "RecordingBook", "RecordingPage",
               "RecordingDate", "RecordingTime"} :
        str_upper(str_strip(ent[f].value.chars)) # NA.chars

\* Lines 464-566: the recording fields of a parsed record: the sanitation of
\* book, page and document number, the normalization of date and time
\* (_normalize_entities, lines 834-855: the value is replaced when the parser
\* returns a text), and RecordingStampPresent derived from the five
recording_fields(raw) ==
    LET parsed == [f \in DOMAIN raw |-> parsed_text_field(raw[f])]
        \* Lines 886-901: a MIN of eighteen digits is kept, stripped; one of
        \* other digits is "N/A"
        normalized_min(cv) ==
            IF Len(_digits_only(cv.value)) = 18
            THEN [cv EXCEPT !.value = Str(str_strip(@.chars))]
            ELSE IF _digits_only(cv.value) # << >> THEN ConfidenceValue(NA, 0)
            ELSE cv
        date == _try_parse_date(parsed.RecordingDate.value)
        time == _try_parse_time_to_hhmmss(parsed.RecordingTime.value)
        ent == [parsed EXCEPT
                   !.RecordingBook = sanitized_book(@),
                   !.RecordingPage = sanitized_page(@),
                   !.RecordingDocumentNumber =
                       restored_document_number(raw.RecordingDocumentNumber, @, parsed.MIN,
                                                sanitized_document_number(@, parsed.MIN)),
                   !.RecordingDate.value = IF date # None THEN date ELSE @,
                   !.RecordingTime.value = IF time # None THEN time ELSE @,
                   !.MIN = normalized_min(@)]
    IN  [ent EXCEPT !.RecordingStampPresent.value =
                        IF has_rec(ent) THEN Str(<<"Y", "e", "s">>) ELSE Str(<<"N", "o">>)]

\* AIAnalysisService._canonicalize_rider_name (the service's own: the key is
\* raw.strip().lower(), an unmapped name must be in the allow-list as written)
service_canonicalize_rider_name(name) ==
    LET raw   == Strip(name)
        canon == RIDER_ALIASES(LowerRider(raw))
    IN  IF raw = "" THEN ""
        ELSE IF canon = "None" THEN (IF InAllowlist(raw) THEN raw ELSE "")
        ELSE canon

\* AIAnalysisService._sanitize_borrower_name on the names of the model
_sanitize_borrower_name(raw) ==
    CASE raw = "Borrower: John Smith" -> "JOHN SMITH"
      [] raw = "John Smith"           -> "JOHN SMITH"
      [] raw = "John-Smith"           -> "JOHN-SMITH"
      [] raw = "Mary Jones"           -> "MARY JONES"
      [] raw = "Borrower"             -> ""
      [] raw = "None"                 -> "NONE"
      [] OTHER                        -> raw

\* Whether word stands in chars from position i on
starts_with(chars, i, word) ==
    /\ i + Len(word) - 1 <= Len(chars)
    /\ SubSeq(chars, i, i + Len(word) - 1) = word

\* Lines 797 and 803: the role words
RoleWords == {<<"B", "O", "R", "R", "O", "W", "E", "R">>,
              <<"M", "O", "R", "T", "G", "A", "G", "O", "R">>,
              <<"T", "R", "U", "S", "T", "O", "R">>,
              <<"O", "W", "N", "E", "R">>}

\* Line 797, role_pat on a text in upper case (the pattern ignores case): the
\* position after the match at the start of the text, 0 when there is none.
\* The match is an optional "the" and spaces, a role word with or without S
\* before a word boundary, then spaces, then : ; , - in any number, then spaces
role_label_end(up) ==
    LET skip(i, set) ==
            CHOOSE j \in i..(Len(up) + 1) :
                /\ \A k \in i..(j - 1) : up[k] \in set
                /\ j = Len(up) + 1 \/ up[j] \notin set
        word_end(p) ==
            LET ends == {IF starts_with(up, p, w \o <<"S">>) /\ boundary(up, p + Len(w) + 1)
                         THEN p + Len(w) + 1
                         ELSE IF starts_with(up, p, w) /\ boundary(up, p + Len(w))
                         THEN p + Len(w) ELSE 0 : w \in RoleWords}
            IN  CHOOSE e \in ends : \A x \in ends : x <= e
        the_end == IF starts_with(up, 1, <<"T", "H", "E", " ">>) THEN skip(4, {" "}) ELSE 0
        p == IF the_end > 0 /\ word_end(the_end) > 0 THEN the_end ELSE 1
    IN  IF word_end(p) = 0 THEN 0
        ELSE skip(skip(skip(word_end(p), {" "}), {":", ";", ",", "-"}), {" "})

\* Lines 798-801: the labels are removed until the text stays the same
RECURSIVE strip_role_labels(_)
strip_role_labels(s) ==
    IF role_label_end(str_upper(s)) = 0 THEN s
    ELSE strip_role_labels(str_strip(SubSeq(s, role_label_end(str_upper(s)), Len(s))))

\* Lines 810-813: the text before the first ; or , that a marital or tenancy
\* descriptor follows, after spaces and an optional A or AN
without_descriptors(up) ==
    LET descriptors == {<<"U", "N", "M", "A", "R", "R", "I", "E", "D">>,
                        <<"M", "A", "R", "R", "I", "E", "D">>,
                        <<"S", "I", "N", "G", "L", "E">>,
                        <<"H", "U", "S", "B", "A", "N", "D">>,
                        <<"W", "I", "F", "E">>,
                        <<"W", "I", "D", "O", "W">>,
                        <<"W", "I", "D", "O", "W", "E", "R">>,
                        <<"S", "P", "O", "U", "S", "E">>,
                        <<"J", "O", "I", "N", "T">>,
                        <<"T", "E", "N", "A", "N", "C", "Y">>,
                        <<"T", "E", "N", "A", "N", "T", "S">>,
                        <<"C", "O", "M", "M", "U", "N", "I", "T", "Y">>,
                        <<"S", "E", "V", "E", "R", "A", "L", "T", "Y">>,
                        <<"B", "Y", " ", "T", "H", "E", " ", "E", "N", "T", "I", "R", "E", "T", "Y">>,
                        <<"I", "N", " ", "C", "O", "M", "M", "O", "N">>}
        skip(i) == CHOOSE j \in i..(Len(up) + 1) :
                       /\ \A k \in i..(j - 1) : up[k] = " "
                       /\ j = Len(up) + 1 \/ up[j] # " "
        article(i) == IF starts_with(up, i, <<"A", "N", " ">>) THEN skip(i + 2)
                      ELSE IF starts_with(up, i, <<"A", " ">>) THEN skip(i + 1)
                      ELSE i
        described(i) == \E d \in descriptors :
                            \/ starts_with(up, article(skip(i)), d)
                            \/ starts_with(up, skip(i), d)
        cuts == {i \in 1..Len(up) : up[i] \in {";", ","} /\ described(i + 1)}
    IN  IF cuts = {} THEN up
        ELSE str_strip(SubSeq(up, 1, (CHOOSE i \in cuts : \A k \in cuts : i <= k) - 1))

\* AIAnalysisService._sanitize_borrower_name, character by character
sanitized_name(raw) ==
    LET s == strip_role_labels(str_strip(raw.chars))
        first == CHOOSE j \in 1..(Len(s) + 1) :
                     /\ \A k \in 1..(j - 1) : s[k] \in {" ", ",", ";", ":", "-"}
                     /\ j = Len(s) + 1 \/ s[j] \notin {" ", ",", ";", ":", "-"}
        trimmed == SubSeq(s, first, Len(s))
        collapsed[i \in 0..Len(trimmed)] ==
            IF i = 0 THEN << >>
            ELSE IF trimmed[i] = " " /\ i > 1 /\ trimmed[i - 1] = " " THEN collapsed[i - 1]
            ELSE Append(collapsed[i - 1], trimmed[i])
    IN  IF s = << >> \/ str_upper(s) \in RoleWords \cup {w \o <<"S">> : w \in RoleWords}
        THEN Str(<< >>)
        ELSE Str(without_descriptors(str_upper(collapsed[Len(trimmed)])))

\* The minimum Present confidence for a rider to be parsed at all (line 416)
PresentConfidenceMin == 85

\* Lines 283-323: one raw Borrower item as a BorrowerEntry; the sub-field
\* confidences are taken as given
parse_borrower(item) ==
    BorrowerEntry(
        ConfidenceValue(_sanitize_borrower_name(item.Name.value), item.Name.confidence),
        ConfidenceValue(item.Alias.value, item.Alias.confidence),
        ConfidenceValue(item.Relationship.value, item.Relationship.confidence),
        ConfidenceValue(item.TenantInformation.value, item.TenantInformation.confidence))

\* Lines 325-354: an item whose key is already taken by an entry that keeps
\* the slot is merged into it
parse_merge_borrower(existing, b) ==
    LET with_alias ==
            [existing EXCEPT
               !.Alias.value      = alias_union(existing.Alias.value, b.Alias.value),
               !.Alias.confidence = Max2(existing.Alias.confidence, b.Alias.confidence)]
        with_rel ==
            IF b.Relationship.confidence > with_alias.Relationship.confidence
            THEN [with_alias EXCEPT !.Relationship = b.Relationship]
            ELSE with_alias
    IN  IF b.TenantInformation.confidence > with_rel.TenantInformation.confidence
        THEN [with_rel EXCEPT !.TenantInformation = b.TenantInformation]
        ELSE with_rel

\* _norm of lines 326-330: the same key as the results window's
parse_borrower_key(s) == _normalize_string_for_comparison(s)

\* Lines 275-357: the Borrower list, deduplicated by normalized name, in the
\* order the keys were first seen (dict order)
parse_borrowers(raw_field_data) ==
    LET entries == SelectSeqBy([i \in 1..Len(raw_field_data.value) |->
                                   parse_borrower(raw_field_data.value[i])],
                               LAMBDA b : b.Name.value # "")
        step(acc, b) ==
            LET key == parse_borrower_key(b.Name.value)
                at  == {i \in 1..Len(acc) : parse_borrower_key(acc[i].Name.value) = key}
            IN  IF key = "" THEN acc
                ELSE IF at = {} THEN Append(acc, b)
                ELSE LET i == CHOOSE k \in at : TRUE
                     IN  IF b.Name.confidence > acc[i].Name.confidence
                         THEN [acc EXCEPT ![i] = b]
                         ELSE [acc EXCEPT ![i] = parse_merge_borrower(@, b)]
    IN  ConfidenceValue(FoldLeft(step, <<>>, entries), float_or_zero(raw_field_data))

\* Lines 290-291, 310-317 are outside any try of their own: float() of a
\* confidence that is not a number raises, for the Name of any item and for
\* the other sub-fields of an item whose name is kept
borrower_raises(item) ==
    \/ ~IsNumber(item.Name)
    \/ /\ _sanitize_borrower_name(item.Name.value) # ""
       /\ \/ ~IsNumber(item.Alias)
          \/ ~IsNumber(item.Relationship)
          \/ ~IsNumber(item.TenantInformation)

\* Lines 276-277: a Borrower that is not an object counts as an empty list
borrowers_raise(raw_field_data) ==
    /\ IsDict(raw_field_data)
    /\ \E i \in 1..Len(raw_field_data.value) : borrower_raises(raw_field_data.value[i])

\* Lines 276-357 when nothing raises
borrowers_field(raw_field_data) ==
    IF IsDict(raw_field_data) THEN parse_borrowers(raw_field_data)
    ELSE ConfidenceValue(<<>>, 0)

\* Lines 375-425: one raw rider; SignedAttached is derived from Present.
\* No rider (the empty list) when it is not signed, unnamed, or Present is below 0.85.
parse_rider(rider_data) ==
    LET name_value         == rider_data.Name.value
        name_confidence    == Clamp(float_or_zero(rider_data.Name))
        present_value      == rider_data.Present.value
        present_confidence == Clamp(float_or_zero(rider_data.Present))
        signed_value       == IF Lower(Strip(present_value)) = "yes" THEN "Yes" ELSE "No"
    IN  IF \/ signed_value # "Yes"
           \/ name_value \in {"N/A", "Not Listed", ""}
           \/ present_confidence < PresentConfidenceMin
        THEN <<>>
        ELSE << Rider(ConfidenceValue(name_value, name_confidence),
                      ConfidenceValue(present_value, present_confidence),
                      ConfidenceValue(signed_value, present_confidence)) >>

\* Lines 903-950 of _normalize_entities: of the riders of one key the first
\* with the highest Name confidence stays, at the place the key was first seen
keep_highest(riders, r, key, Key(_)) ==
    LET at == {i \in 1..Len(riders) : Key(riders[i]) = key}
    IN  IF at = {} THEN Append(riders, r)
        ELSE IF r.Name.confidence > riders[CHOOSE k \in at : TRUE].Name.confidence
        THEN [riders EXCEPT ![CHOOSE k \in at : TRUE] = r]
        ELSE riders

\* Lines 912-940: a rider goes under its canonical name when it has one in the
\* allow-list, else under its lowercased name as written
classify_rider(acc, r, canon) ==
    IF canon # "" /\ InAllowlist(canon)
    THEN [acc EXCEPT !.normalized =
             keep_highest(@, [r EXCEPT !.Name.value = canon], canon,
                          LAMBDA x : x.Name.value)]
    ELSE IF LowerRider(Strip(r.Name.value)) # ""
    THEN [acc EXCEPT !.unclassified =
             keep_highest(@, r, LowerRider(Strip(r.Name.value)),
                          LAMBDA x : LowerRider(Strip(x.Name.value)))]
    ELSE acc

\* Lines 903-950 of _normalize_entities: the canonical riders, then the
\* unclassified ones
normalize_riders(riders) ==
    LET step(acc, r) ==
            classify_rider(acc,
                           [r EXCEPT !.Present.value = _normalize_yes_no(@),
                                     !.SignedAttached.value = _normalize_yes_no(@)],
                           service_canonicalize_rider_name(r.Name.value))
        both(final) == final.normalized \o final.unclassified
    IN  both(FoldLeft(step, [normalized |-> <<>>, unclassified |-> <<>>], riders))

\* Lines 427-435: the list confidence is kept only when a rider was parsed
riders_field(riders, confidence) ==
    ConfidenceValue(normalize_riders(riders), IF riders = <<>> THEN 0 ELSE Clamp(confidence))

\* Lines 360-435 and 903-950: the RidersPresent list
parse_riders(raw_field_data) ==
    riders_field(FoldLeft(LAMBDA acc, rider_data : acc \o parse_rider(rider_data),
                          <<>>, raw_field_data.value),
                 float_or_zero(raw_field_data))

\* Lines 438-459: a plain field
parse_scalar(raw_field_data) ==
    ConfidenceValue(IF raw_field_data.value = "" THEN "N/A" ELSE raw_field_data.value,
                    Clamp(float_or_zero(raw_field_data)))

\* Lines 361-362 and 439-440: raw_field_data.get(...) on a value that is not an
\* object raises AttributeError, for the riders and for every plain field
field_raises(raw_field_data) == ~IsDict(raw_field_data)

\* Whether an exception leaves the loop over the fields (lines 271-462)
parse_raises(raw) ==
    \/ field_raises(raw.LenderName)
    \/ borrowers_raise(raw.Borrower)
    \/ field_raises(raw.RidersPresent)
    \/ field_raises(raw.LegalDescriptionPresent)
    \/ field_raises(raw.LegalDescriptionDetail)

\* The result of every early return and of every except clause: a default
\* record, no summary and the message
failed(error) == AnalysisResult(MortgageDocumentEntities, "", error, "Unnamed Document")

\* A variant of rejection that lets a response without a summary through, the
\* summary taking the default of parsed_data.get("summary", ...)
rejection_defaulting_summary(response) ==
    IF response.shape = "text" THEN "AI response was not valid JSON"
    ELSE IF response.shape # "object" THEN "AI response is not a valid JSON object."
    ELSE IF "entities" \notin response.keys
    THEN "Malformed AI response: missing entities or summary."
    ELSE IF ~IsDict(response.entities)
    THEN "Malformed AI response: entities field is not a valid object."
    ELSE IF parse_raises(response.entities) THEN "Unexpected error during AI analysis"
    ELSE "None"

\* Lines 251-266, 569-577: the message of the response that is turned down,
\* "None" for a response that is parsed
rejection(response) ==
    IF response.shape = "text" THEN "AI response was not valid JSON"
    ELSE IF response.shape # "object" THEN "AI response is not a valid JSON object."
    ELSE IF "entities" \notin response.keys \/ "summary" \notin response.keys
    THEN "Malformed AI response: missing entities or summary."
    ELSE IF ~IsDict(response.entities)
    THEN "Malformed AI response: entities field is not a valid object."
    ELSE IF parse_raises(response.entities) THEN "Unexpected error during AI analysis"
    ELSE "None"

\* AIAnalysisService.analyze_mortgage_document on the model's response:
\* shape "object" is a JSON object with object-valued entities and a summary
analyze_mortgage_document(response) ==
    IF rejection(response) # "None"
    THEN failed(rejection(response))
    ELSE LET raw == response.entities
         IN  AnalysisResult(
                 [ LenderName              |-> parse_scalar(raw.LenderName),
                   Borrower                |-> borrowers_field(raw.Borrower),
                   RidersPresent           |-> parse_riders(raw.RidersPresent),
                   LegalDescriptionPresent |->
                       [parse_scalar(raw.LegalDescriptionPresent) EXCEPT
                           !.value = _normalize_yes_no(@)],
                   LegalDescriptionDetail  |-> parse_scalar(raw.LegalDescriptionDetail) ],
                 response.summary, NoError, "Unnamed Document")
-----------------------------------------------------------------------------
(* main.py: reconciliation of the history *)

\* AscendantVisionAIPlatformApp._is_valid_value on a string value
_is_valid_value(val) ==
    IF val = "None" THEN FALSE
    ELSE /\ Lower(Strip(val)) \notin {"n/a", "not listed", "", "legal description is missing"}
         /\ Strip(val) # "No"

\* Lines 407-425: riders united by the name as written, the higher Name
\* confidence keeping the place of the name first seen
merge_riders_by_name(base_cv, new_cv) ==
    LET put(acc, r) ==
            LET name == r.Name.value
                at   == {i \in 1..Len(acc) : acc[i].Name.value = name}
            IN  IF name \in {"", "None"} THEN acc
                ELSE IF at = {} THEN Append(acc, r)
                ELSE LET i == CHOOSE k \in at : TRUE
                     IN  IF r.Name.confidence > acc[i].Name.confidence
                         THEN [acc EXCEPT ![i] = r] ELSE acc
    IN  ConfidenceValue(FoldLeft(put, <<>>, base_cv.value \o new_cv.value),
                        Max2(base_cv.confidence, new_cv.confidence))

\* Lines 446-466: an entry that does not take the slot of its key is merged
\* into the one that holds it, without any threshold
merge_borrower_into(existing, b) ==
    LET with_alias ==
            [existing EXCEPT
               !.Alias.value      = alias_union(existing.Alias.value, b.Alias.value),
               !.Alias.confidence = Max2(existing.Alias.confidence, b.Alias.confidence)]
        with_rel ==
            IF b.Relationship.confidence > with_alias.Relationship.confidence
            THEN [with_alias EXCEPT !.Relationship = b.Relationship]
            ELSE with_alias
    IN  IF b.TenantInformation.confidence > with_rel.TenantInformation.confidence
        THEN [with_rel EXCEPT !.TenantInformation = b.TenantInformation]
        ELSE with_rel

\* Lines 427-472: borrowers united by normalized name
merge_borrowers_by_key(base_cv, new_cv) ==
    LET put(acc, b) ==
            LET key == _normalize_string_for_comparison(b.Name.value)
                at  == {i \in 1..Len(acc) :
                           _normalize_string_for_comparison(acc[i].Name.value) = key}
            IN  IF key = "" THEN acc
                ELSE IF at = {} THEN Append(acc, b)
                ELSE LET i == CHOOSE k \in at : TRUE
                     IN  IF b.Name.confidence > acc[i].Name.confidence
                         THEN [acc EXCEPT ![i] = b]
                         ELSE [acc EXCEPT ![i] = merge_borrower_into(@, b)]
    IN  ConfidenceValue(FoldLeft(put, <<>>, base_cv.value \o new_cv.value),
                        Max2(base_cv.confidence, new_cv.confidence))

\* Lines 478-483: the new value when it is valid and strictly more confident,
\* or when the base value is not valid
takes_new(base_cv, new_cv) ==
    \/ new_cv.confidence > base_cv.confidence /\ _is_valid_value(new_cv.value)
    \/ ~_is_valid_value(base_cv.value)

merge_scalar(base_cv, new_cv) ==
    IF takes_new(base_cv, new_cv) THEN new_cv ELSE base_cv

\* Lines 485-497: LegalDescriptionPresent follows LegalDescriptionDetail
harmonize_legal_description(merged) ==
    LET legal_detail  == merged.LegalDescriptionDetail
        legal_present == merged.LegalDescriptionPresent
        conf          == Max2(legal_present.confidence, legal_detail.confidence)
    IN  IF /\ Strip(legal_detail.value) # ""
           /\ Lower(Strip(legal_detail.value)) \notin
                  {"n/a", "not listed", "legal description is missing"}
        THEN [merged EXCEPT !.LegalDescriptionPresent = ConfidenceValue("Yes", conf)]
        ELSE [merged EXCEPT !.LegalDescriptionPresent =
                 ConfidenceValue(IF legal_present.value \in {"No", "N/A"}
                                 THEN legal_present.value ELSE "No", conf)]

\* AscendantVisionAIPlatformApp._merge_entities_keep_highest_confidence
_merge_entities_keep_highest_confidence(base, new) ==
    harmonize_legal_description(
        [ LenderName              |-> merge_scalar(base.LenderName, new.LenderName),
          Borrower                |-> merge_borrowers_by_key(base.Borrower, new.Borrower),
          RidersPresent           |-> merge_riders_by_name(base.RidersPresent, new.RidersPresent),
          LegalDescriptionPresent |-> merge_scalar(base.LegalDescriptionPresent,
                                                   new.LegalDescriptionPresent),
          LegalDescriptionDetail  |-> merge_scalar(base.LegalDescriptionDetail,
                                                   new.LegalDescriptionDetail) ])

\* The fields of the general branch of the loops over the dataclass fields
ScalarFields == {"LenderName", "LegalDescriptionPresent", "LegalDescriptionDetail"}

\* The ConfidenceValue objects of a result built for place i and held nowhere else
own_objects(i) == [f \in ScalarFields |-> i]

\* The ConfidenceValue objects of a result just built, before it has a place
new_objects == [f \in ScalarFields |-> 0]

\* Each object named by the first place of the list that holds it
first_places(objects) ==
    [i \in 1..Len(objects) |->
        [f \in ScalarFields |->
            CHOOSE j \in 1..i :
                /\ objects[j][f] = objects[i][f]
                /\ \A k \in 1..(j - 1) : objects[k][f] # objects[i][f]]]

\* Lines 478-483: setattr(merged, field_name, chosen) stores the chosen object
\* itself, so the merged record holds the object of new wherever new is chosen
merged_objects(base, new, base_objects) ==
    [f \in ScalarFields |-> IF takes_new(base[f], new[f]) THEN 0 ELSE base_objects[f]]

\* The history while a result is reconciled: the entries, the objects they
\* hold, and the entities of the result (whose objects are named 0)
Reconciling(results, objects, source_entities) ==
    [results |-> results, objects |-> objects, source |-> source_entities]

\* Lines 368-499 for the entry at idx, the objects included: lines 485-497
\* assign to the LegalDescriptionPresent object the merged record holds, so
\* every entry holding that object reads the harmonized value, and so does the
\* source when the object is its own
merged_in_place(st, idx) ==
    LET base    == st.results[idx].entities
        merged  == _merge_entities_keep_highest_confidence(base, st.source)
        held    == merged_objects(base, st.source, st.objects[idx])
        present == merged.LegalDescriptionPresent
    IN  [ results |->
              [k \in 1..Len(st.results) |->
                  IF k = idx THEN [st.results[k] EXCEPT !.entities = merged]
                  ELSE IF st.objects[k].LegalDescriptionPresent = held.LegalDescriptionPresent
                       THEN [st.results[k] EXCEPT !.entities.LegalDescriptionPresent = present]
                       ELSE st.results[k]],
          objects |-> [st.objects EXCEPT ![idx] = held],
          source |-> IF held.LegalDescriptionPresent = 0
                     THEN [st.source EXCEPT !.LegalDescriptionPresent = present]
                     ELSE st.source ]

\* Lines 525-531: the loop over the history, from idx on
RECURSIVE propagated_from(_, _, _)
propagated_from(st, idx, exclude_index) ==
    IF idx > Len(st.results) THEN st
    ELSE propagated_from(
             IF idx = exclude_index \/ HasError(st.results[idx]) THEN st
             ELSE merged_in_place(st, idx),
             idx + 1, exclude_index)

\* AscendantVisionAIPlatformApp._propagate_higher_confidence_to_history
\* (exclude_index counts from 1 here; 0 excludes nothing)
_propagate_higher_confidence_to_history(st, exclude_index) ==
    propagated_from(st, 1, exclude_index)

\* AscendantVisionAIPlatformApp._upsert_analysis_result
_upsert_analysis_result(st, new_result) ==
    LET found == {i \in 1..Len(st.results) : st.results[i].document_id = new_result.document_id}
    IN  IF found = {}
        THEN [st EXCEPT !.results = Append(@, new_result),
                        !.objects = Append(@, new_objects)]
        ELSE LET existing_idx == CHOOSE i \in found : \A k \in found : i <= k
                 merged       == merged_in_place(st, existing_idx)
             IN  [merged EXCEPT
                    !.results[existing_idx] =
                        AnalysisResult(
                            @.entities,
                            IF new_result.summary # "" THEN new_result.summary
                            ELSE st.results[existing_idx].summary,
                            new_result.error,
                            new_result.document_id)]
-----------------------------------------------------------------------------
(* Bounds and inputs *)

\* The most entries of a history handed to the results window
MaxHistory == 2

\* The most capture workflows started in one run
MaxCaptures == 3

\* The values of config.UI_CONFIDENCE_MIN tried (the settings window takes 0.0 to 1.0)
Thresholds == {0, 50, 90}

\* The values of config.UI_CONFIDENCE_MIN the capture runs are made under: the
\* lowest the settings window takes, and the default
SessionThresholds == {0, 90}

Families == {"scalars", "legal", "parties", "riders"}

RawCV(v, c) == [value |-> v, confidence |-> c]

RawRider(n, nc, p, pc, s, sc) ==
    [Name |-> RawCV(n, nc), Present |-> RawCV(p, pc), SignedAttached |-> RawCV(s, sc)]

RawBorrower(n, nc, a, ac, r, rc, t, tc) ==
    [Name |-> RawCV(n, nc), Alias |-> RawCV(a, ac),
     Relationship |-> RawCV(r, rc), TenantInformation |-> RawCV(t, tc)]

\* The "entities" object of a response in which nothing was found
RawEntities ==
    [ LenderName              |-> RawCV("N/A", 0),
      Borrower                |-> RawCV(<<>>, 0),
      RidersPresent           |-> RawCV(<<>>, 0),
      LegalDescriptionPresent |-> RawCV("No", 0),
      LegalDescriptionDetail  |-> RawCV("N/A", 0) ]

Response(e, s) ==
    [shape |-> "object", keys |-> {"entities", "summary"}, entities |-> e, summary |-> s]

\* An entry of the history that no response stands behind
NoResponse == [shape |-> "none", keys |-> {}, entities |-> RawEntities, summary |-> ""]

\* A response that is JSON but not an object
NotJson == [shape |-> "array", keys |-> {}, entities |-> RawEntities, summary |-> ""]

\* A response that json.loads turns down
NotParsable == [shape |-> "text", keys |-> {}, entities |-> RawEntities, summary |-> ""]

\* A raw JSON value that is not an object: a string or a list
NonDict(json_type) == [json_type |-> json_type]

\* A raw {value, confidence} object whose confidence is a text
RawCVText(v, text) == [value |-> v, confidence |-> 0, confidence_text |-> text]

Lender(v, c) == [RawEntities EXCEPT !.LenderName = RawCV(v, c)]

Legal(v, c) == [RawEntities EXCEPT !.LegalDescriptionDetail  = RawCV(v, c),
                                   !.LegalDescriptionPresent = RawCV("Yes", c)]

Parties(list) == [RawEntities EXCEPT !.Borrower = RawCV(list, 95)]

Riders(list) == [RawEntities EXCEPT !.RidersPresent = RawCV(list, 95)]

\* The responses of the model, by family of documents
Responses(f) ==
    CASE f = "scalars" ->
           { Response(Lender("ACME BANK", 95), "Deed of trust"),
             Response(Lender("FIRST BANK", 95), "Processing..."),
             Response(Lender("UNION BANK", 50), "Deed of trust"),
             Response(RawEntities, "Signature page"),
             NotJson }
      [] f = "legal" ->
           { Response(Legal("Lot 1, Block 2", 93), "Exhibit A"),
             Response(Legal("LOT 1,  BLOCK 2", 91), "Exhibit A"),
             Response(Legal("Tract 9", 95), "Exhibit A"),
             Response([RawEntities EXCEPT !.LegalDescriptionPresent = RawCV("Yes", 95)],
                      "Deed of trust") }
      [] f = "parties" ->
           { Response(Parties(<< RawBorrower("John Smith", 92, <<"J SMITH">>, 95,
                                             "Husband", 95, "Joint Tenants", 91) >>),
                      "Deed of trust"),
             Response(Parties(<< RawBorrower("John-Smith", 97, <<"JOHNNY">>, 95,
                                             "N/A", 0, "N/A", 0),
                                 RawBorrower("Mary Jones", 95, <<>>, 0,
                                             "Wife", 60, "N/A", 0) >>),
                      "Signature page"),
             Response(Parties(<< RawBorrower("John Smith", 92, <<"J SMITH", " J SMITH">>, 95,
                                             "N/A", 0, "N/A", 0) >>),
                      "Signature page"),
             Response(RawEntities, "Exhibit A") }
      [] f = "riders" ->
           { Response(Riders(<< RawRider("Condo Rider", 92, "Yes", 92, "Yes", 92) >>),
                      "Deed of trust"),
             Response(Riders(<< RawRider("Condominium Rider", 95, "Yes", 95, "Yes", 95),
                                RawRider("Solar Rider", 92, "Yes", 92, "Yes", 92) >>),
                      "Deed of trust"),
             Response(Riders(<< RawRider("1-4 Family Rider", 95, "No", 90, "Yes", 95),
                                RawRider("Other(s) [specify]", 95, "Yes", 95, "Yes", 95) >>),
                      "Deed of trust"),
             Response(Riders(<< RawRider("Condo Rider", 50, "Yes", 90, "Yes", 90) >>),
                      "Deed of trust"),
             Response(RawEntities, "Signature page") }

\* _init_ui_windows: the entry the history starts with
dummy_result == AnalysisResult(MortgageDocumentEntities, "", NoError, "Document_0")

\* The entries a history handed to the results window is made of: the starting
\* entry, what the analysis returns, and the same under an error (an entry
\* merged by _upsert_analysis_result keeps its entities next to the error)
Entries(f) ==
    {dummy_result}
    \cup {analyze_mortgage_document(r) : r \in Responses(f)}
    \cup {[analyze_mortgage_document(r) EXCEPT !.error = "Unexpected error during AI analysis"] :
             r \in Responses(f) \ {NotJson}}

\* The histories of at most MaxHistory entries, each entry named by its place
Histories(f) ==
    UNION {{[i \in 1..n |-> [h[i] EXCEPT !.document_id = "Document_" \o ToString(i)]] :
               h \in [1..n -> Entries(f)]} : n \in 0..MaxHistory}
-----------------------------------------------------------------------------
(* The results window over a history *)

\* Lines 727-731 of _populate_content once the merge has returned
populated(results, merged) ==
    /\ edited' = "None"
    /\ prior_results' = results
    /\ all_analysis_results' = merged.results
    /\ combined_entities' = merged.combined
    /\ entity_entries' = _display_entity_fields(merged.combined, merged.results,
                                                UI_CONFIDENCE_MIN)

\* ResultsWindow._populate_content: merge the list, keep the merged record and
\* rebuild the editable fields. The merge works on the objects of the list, so
\* the history is left as the merge leaves it.
_populate_content(results) ==
    populated(results, _combine_analysis_results(results, UI_CONFIDENCE_MIN))

\* Lines 39-49 of ResultsWindow.__init__ once the merge has returned
constructed(results, merged, ui_confidence_min) ==
    /\ edited = "None"
    /\ prior_results = results
    /\ all_analysis_results = merged.results
    /\ combined_entities = merged.combined
    /\ entity_entries = _display_entity_fields(merged.combined, merged.results,
                                               ui_confidence_min)

\* ResultsWindow.__init__ over the list given: the state once line 49 has run
ResultsWindow(results, ui_confidence_min) ==
    constructed(results, _combine_analysis_results(results, ui_confidence_min),
                ui_confidence_min)

\* ResultsWindow.update_data with the list the window already shows
update_data ==
    /\ _populate_content(all_analysis_results)
    /\ UNCHANGED <<UI_CONFIDENCE_MIN, workflows, started, family, returned, cv_object>>

\* A results window built over any history of the family
InitMerge ==
    \E f \in Families, t \in Thresholds :
        \E h \in Histories(f) :
            /\ family = f
            /\ UI_CONFIDENCE_MIN = t
            /\ ResultsWindow(h, t)
            /\ workflows = EmptyBag
            /\ started = 0
            /\ returned = [i \in 1..Len(h) |-> [response |-> NoResponse, result |-> h[i]]]
            /\ cv_object = [i \in 1..Len(h) |-> own_objects(i)]

NextMerge == update_data

SpecMerge == InitMerge /\ [][NextMerge]_vars

-----------------------------------------------------------------------------
(* main.py: a change of the settings while the results window is shown *)

\* Lines 727-731 of _populate_content under the threshold just configured
repopulated(results, merged, ui_conf_val) ==
    /\ edited' = "None"
    /\ prior_results' = results
    /\ all_analysis_results' = merged.results
    /\ combined_entities' = merged.combined
    /\ entity_entries' = _display_entity_fields(merged.combined, merged.results, ui_conf_val)

\* AscendantVisionAIPlatformApp._apply_settings (lines 656-667): the threshold
\* the settings window validated is stored in config and the window is
\* refreshed over the history it holds
_apply_settings(ui_conf_val) ==
    /\ UI_CONFIDENCE_MIN' = ui_conf_val
    /\ repopulated(all_analysis_results,
                   _combine_analysis_results(all_analysis_results, ui_conf_val),
                   ui_conf_val)
    /\ UNCHANGED <<workflows, started, family, returned, cv_object>>

NextSettings == \E ui_conf_val \in Thresholds : _apply_settings(ui_conf_val)

\* A results window over any history, the threshold changing between merges
SpecSettings == InitMerge /\ [][NextSettings]_vars

-----------------------------------------------------------------------------
(* ui/results_window.py: Save Edits *)

\* Lines 764-771: the field an editable entry stands for
original_key(display_key) ==
    CASE display_key = "Lender"         -> "LenderName"
      [] display_key = "Checked Riders" -> "RidersPresent"
      [] display_key = "Borrowers"      -> "Borrower"

\* Lines 684-704: the text widget of the legal description exists when the
\* last refresh showed the merged detail
legal_widget_exists ==
    combined_entities.LegalDescriptionDetail.confidence >= UI_CONFIDENCE_MIN

\* Lines 797, 802-805: the text of the widget decides LegalDescriptionPresent
legal_present_of(legal_desc_detail_text) ==
    IF legal_desc_detail_text \notin {"", "N/A", "legal description is missing"}
    THEN "Yes" ELSE "No"

\* Lines 766-806: the value written into each field of the last entry
written_value(texts, legal_desc_detail_text, field_name) ==
    CASE field_name = "LegalDescriptionDetail"  -> legal_desc_detail_text
      [] field_name = "LegalDescriptionPresent" -> legal_present_of(legal_desc_detail_text)
      [] OTHER -> Strip(texts[CHOOSE k \in DOMAIN texts : original_key(k) = field_name])

\* The fields Save Edits writes: those of the editable entries, and the two
\* legal fields when the text widget exists
written_fields(texts, legal_widget) ==
    {original_key(k) : k \in DOMAIN texts}
        \cup (IF legal_widget THEN {"LegalDescriptionDetail", "LegalDescriptionPresent"}
              ELSE {})

\* current_cv.value = ... (lines 778-788, 800, 803-805) changes the object the
\* last entry holds, and with it every entry that holds the same object; the
\* list fields of an entry are objects of its own (main.py 405, 421, 474)
holds_object_of_last(objects, i, field_name) ==
    IF field_name \in ScalarFields
    THEN objects[i][field_name] = objects[Len(objects)][field_name]
    ELSE i = Len(objects)

\* The history once the values were written
saved_results(results, objects, fields, texts, legal_desc_detail_text) ==
    [i \in 1..Len(results) |->
        [results[i] EXCEPT !.entities =
            [f \in DOMAIN @ |->
                IF f \in fields /\ holds_object_of_last(objects, i, f)
                THEN [@[f] EXCEPT !.value = written_value(texts, legal_desc_detail_text, f)]
                ELSE @[f]]]]

\* Lines 415-444: the place of the entry whose object the merge kept for the
\* field, 0 when the merged record kept its own default
best_place(all_results, field_name, threshold) ==
    LET place[i \in 0..Len(all_results)] ==
            IF i = 0 THEN 0
            ELSE IF \/ HasError(all_results[i])
                    \/ ~_is_value_valid(all_results[i].entities[field_name].value)
                    \/ all_results[i].entities[field_name].confidence < threshold
            THEN place[i - 1]
            ELSE IF \/ place[i - 1] = 0
                    \/ all_results[i].entities[field_name].confidence
                           > all_results[place[i - 1]].entities[field_name].confidence
            THEN i
            ELSE place[i - 1]
    IN  place[Len(all_results)]

\* The merged record holds the object of the history it chose (line 444), so a
\* value written into that object shows in the merged record as well
saved_combined(combined, objects, place, texts) ==
    IF /\ "Lender" \in DOMAIN texts
       /\ place # 0
       /\ objects[place].LenderName = objects[Len(objects)].LenderName
    THEN [combined EXCEPT !.LenderName.value = Strip(texts["Lender"])]
    ELSE combined

\* ResultsWindow._save_edits_to_global_entities with texts in the editable
\* entries; the text widget of the legal description is left as shown. No
\* merge and no refresh follow.
_save_edits_to_global_entities(texts) ==
    /\ Len(all_analysis_results) > 0
    /\ all_analysis_results' =
           saved_results(all_analysis_results, cv_object,
                         written_fields(texts, legal_widget_exists), texts,
                         Strip(combined_entities.LegalDescriptionDetail.value))
    /\ combined_entities' =
           saved_combined(combined_entities, cv_object,
                          best_place(prior_results, "LenderName",
                                     merge_threshold(UI_CONFIDENCE_MIN)),
                          texts)
    /\ entity_entries' = texts
    /\ edited' = IF "Lender" \in DOMAIN texts /\ texts["Lender"] # entity_entries["Lender"]
                 THEN Strip(texts["Lender"]) ELSE edited
    /\ UNCHANGED <<UI_CONFIDENCE_MIN, workflows, started, family, returned,
                   prior_results, cv_object>>

\* What the user may have typed into the editable entries shown
EditedTexts(entries) ==
    {entries} \cup (IF "Lender" \in DOMAIN entries
                    THEN {[entries EXCEPT !["Lender"] = "EDITED BANK"]}
                    ELSE {})

-----------------------------------------------------------------------------
(* main.py: the capture workflow *)

Unanswered(result) == [response |-> NoResponse, result |-> result]

\* A task of the workflow: where it stands and the index of its placeholder
\* (counted from 1; 0 before there is one); before_reset is a history field,
\* set on the tasks that hold a placeholder when a new session is started
Task(pc, placeholder_index) ==
    [pc |-> pc, placeholder_index |-> placeholder_index, before_reset |-> FALSE]

\* The tasks in flight once task has moved on to the tasks of next
moved(task, next) == (workflows (-) SetToBag({task})) (+) next

\* _run_analysis_workflow up to the wait for the region (lines 221-239);
\* the hotkey and the New Capture button start one task each
start_workflow ==
    /\ started < MaxCaptures
    /\ started' = started + 1
    /\ workflows' = workflows (+) SetToBag({Task("select_region", 0)})
    /\ UNCHANGED <<all_analysis_results, UI_CONFIDENCE_MIN, combined_entities,
                   entity_entries, family, returned, prior_results, cv_object, edited>>

\* Lines 241-261: a region was selected and cropped; the placeholder is
\* appended and shown (placeholder_index counts from 1 here)
region_selected(task) ==
    /\ task.pc = "select_region"
    /\ LET placeholder_result ==
               AnalysisResult(MortgageDocumentEntities, "Processing...", NoError,
                              "Document_" \o ToString(Len(all_analysis_results) + 1))
           results == Append(all_analysis_results, placeholder_result)
       IN  /\ _populate_content(results)
           /\ returned' = Append(returned, Unanswered(placeholder_result))
           /\ cv_object' = Append(cv_object, own_objects(Len(results)))
           /\ workflows' = moved(task, SetToBag({[task EXCEPT
                                                    !.pc = "analyze",
                                                    !.placeholder_index = Len(results)]}))
    /\ UNCHANGED <<UI_CONFIDENCE_MIN, started, family>>

\* Lines 291-297: no region, or no image; a history of the starting entry
\* alone is emptied
capture_cancelled(task) ==
    /\ task.pc = "select_region"
    /\ LET only_dummy == /\ Len(all_analysis_results) = 1
                         /\ all_analysis_results[1].document_id = "Document_0"
       IN  /\ _populate_content(IF only_dummy THEN <<>> ELSE all_analysis_results)
           /\ returned' = IF only_dummy THEN <<>> ELSE returned
           /\ cv_object' = IF only_dummy THEN <<>> ELSE cv_object
    /\ workflows' = moved(task, EmptyBag)
    /\ UNCHANGED <<UI_CONFIDENCE_MIN, started, family>>

\* Lines 268-272: the result is named after the place of the placeholder
named(returned_result, placeholder_index) ==
    IF returned_result.document_id \in {"", "Unnamed Document", "Document_0"}
    THEN [returned_result EXCEPT !.document_id = "Document_" \o ToString(placeholder_index)]
    ELSE returned_result

\* Lines 274-278: the result takes the place of the placeholder, or is
\* upserted by its name when the index is no longer one of the list
replace_placeholder(results, objects, placeholder_index, analysis_result) ==
    IF placeholder_index \in 1..Len(results)
    THEN Reconciling([results EXCEPT ![placeholder_index] = analysis_result],
                     [objects EXCEPT ![placeholder_index] = new_objects],
                     analysis_result.entities)
    ELSE _upsert_analysis_result(
             Reconciling(results, objects, analysis_result.entities), analysis_result)

\* The place the result went to
place_of(results, replaced, placeholder_index, document_id) ==
    IF placeholder_index \in 1..Len(results) THEN placeholder_index
    ELSE IF Len(replaced) > Len(results) THEN Len(replaced)
    ELSE CHOOSE i \in 1..Len(replaced) :
             /\ replaced[i].document_id = document_id
             /\ \A k \in 1..(i - 1) : replaced[k].document_id # document_id

\* Lines 280-289: the entities of the result are propagated into the other
\* entries and the window is refreshed
reconciled(task, response, analysis_result, replaced) ==
    LET propagated == _propagate_higher_confidence_to_history(
                          replaced, task.placeholder_index)
    IN  /\ cv_object' = first_places(propagated.objects)
        /\ _populate_content(propagated.results)
        /\ returned' = [i \in 1..Len(replaced.results) |->
                           IF i = place_of(all_analysis_results, replaced.results,
                                           task.placeholder_index,
                                           analysis_result.document_id)
                           THEN [response |-> response, result |-> analysis_result]
                           ELSE returned[i]]

\* Lines 274-289 for the result as named
received(task, response, analysis_result) ==
    reconciled(task, response, analysis_result,
               replace_placeholder(all_analysis_results, cv_object,
                                   task.placeholder_index, analysis_result))

\* Lines 263-289: the analysis returned; its result takes the place of the
\* placeholder, its entities are propagated into the other entries, and the
\* window is refreshed
analysis_completed(task, response) ==
    /\ task.pc = "analyze"
    /\ received(task, response,
                named(analyze_mortgage_document(response), task.placeholder_index))
    /\ workflows' = moved(task, EmptyBag)
    /\ UNCHANGED <<UI_CONFIDENCE_MIN, started, family>>

\* Lines 299-317: an exception left the try block, while the region was being
\* selected or cropped or after the placeholder was appended; an error entry
\* takes the place of a last entry that reads "Processing...", or is appended
workflow_failed(task) ==
    /\ task.pc \in {"select_region", "analyze"}
    /\ LET error_result ==
               AnalysisResult(MortgageDocumentEntities, "",
                              "An unexpected error occurred",
                              "Document_" \o ToString(Len(all_analysis_results) + 1) \o "_Error")
           n == Len(all_analysis_results)
           over_last == n > 0 /\ all_analysis_results[n].summary = "Processing..."
       IN  /\ _populate_content(IF over_last
                                THEN [all_analysis_results EXCEPT ![n] = error_result]
                                ELSE Append(all_analysis_results, error_result))
           /\ returned' = IF over_last
                          THEN [returned EXCEPT ![n] = Unanswered(error_result)]
                          ELSE Append(returned, Unanswered(error_result))
           /\ cv_object' = first_places(IF over_last
                                        THEN [cv_object EXCEPT ![n] = new_objects]
                                        ELSE Append(cv_object, new_objects))
    /\ workflows' = moved(task, EmptyBag)
    /\ UNCHANGED <<UI_CONFIDENCE_MIN, started, family>>

\* The application once _init_ui_windows has run: the history holds the
\* starting entry and the results window shows it
Init ==
    /\ family \in Families
    /\ UI_CONFIDENCE_MIN \in SessionThresholds
    /\ ResultsWindow(<<dummy_result>>, UI_CONFIDENCE_MIN)
    /\ workflows = EmptyBag
    /\ started = 0
    /\ returned = <<Unanswered(dummy_result)>>
    /\ cv_object = <<own_objects(1)>>

Next ==
    \/ start_workflow
    \/ \E task \in BagToSet(workflows) : region_selected(task)
    \/ \E task \in BagToSet(workflows) : capture_cancelled(task)
    \/ \E task \in BagToSet(workflows) : \E response \in Responses(family) :
           analysis_completed(task, response)
    \/ \E task \in BagToSet(workflows) : workflow_failed(task)

\* Capture workflows at a fixed threshold, without edits and without a new session
Spec == Init /\ [][Next]_vars

\* AscendantVisionAIPlatformApp._start_new_session_callback: the history is
\* emptied, the starting entry is appended again and the window is refreshed;
\* the workflows in flight are left running with the index they hold
start_new_session ==
    /\ _populate_content(<<dummy_result>>)
    /\ returned' = <<Unanswered(dummy_result)>>
    /\ cv_object' = <<own_objects(1)>>
    /\ workflows' =
           [t \in {[x EXCEPT !.before_reset = @ \/ x.pc = "analyze"] :
                       x \in BagToSet(workflows)} |->
               CopiesIn(t, workflows)
                   + IF t.before_reset
                     THEN CopiesIn([t EXCEPT !.before_reset = FALSE], workflows) ELSE 0]
    /\ UNCHANGED <<UI_CONFIDENCE_MIN, started, family>>

NextSession ==
    \/ Next
    \/ start_new_session

\* Capture workflows and the Start New Session button, in any order
SpecSession == Init /\ [][NextSession]_vars

\* The raw LenderName objects tried: as asked for, with a confidence out of
\* range, with null or the empty string as the value, with a confidence that is
\* a text, and a string in place of the object
RawLenders ==
    { RawCV("ACME BANK", 95), RawCV("ACME BANK", 150), RawCV("ACME BANK", -10),
      RawCV("None", 95), RawCV("", 95), RawCVText("ACME BANK", "high"),
      NonDict("string") }

JohnSmith ==
    RawBorrower("John Smith", 92, <<"J SMITH">>, 95, "Husband", 95, "Joint Tenants", 91)

\* The raw Borrower objects tried: none, one party, confidences out of range,
\* null as a sub-field value and as the name, a sub-field confidence that is a
\* text, a list confidence that is a text, and a string in place of the object
RawBorrowerLists ==
    { RawCV(<<>>, 0),
      RawCV(<< JohnSmith >>, 95),
      RawCV(<< RawBorrower("John Smith", 150, <<"J SMITH">>, 120, "Husband", -10,
                           "Joint Tenants", 200) >>, 150),
      RawCV(<< [JohnSmith EXCEPT !.Relationship = RawCV("None", 95)] >>, 95),
      RawCV(<< [JohnSmith EXCEPT !.Name = RawCV("None", 92)] >>, 95),
      RawCV(<< [JohnSmith EXCEPT !.Relationship = RawCVText("Husband", "high")] >>, 95),
      RawCVText(<< JohnSmith >>, "high"),
      NonDict("string") }

\* The raw RidersPresent objects tried: none, one rider, confidences out of
\* range, null as the name, a confidence that is a text, and a list or a
\* string in place of the object
RawRiderLists ==
    { RawCV(<<>>, 0),
      RawCV(<< RawRider("Condo Rider", 92, "Yes", 92, "Yes", 92) >>, 95),
      RawCV(<< RawRider("Condo Rider", 150, "Yes", 150, "Yes", 150) >>, 150),
      RawCV(<< RawRider("None", 92, "Yes", 92, "Yes", 92) >>, 95),
      RawCV(<< [RawRider("Condo Rider", 92, "Yes", 92, "Yes", 92) EXCEPT
                  !.Name = RawCVText("Condo Rider", "high")] >>, 95),
      NonDict("list"),
      NonDict("string") }

\* The raw extractions tried
RawExtractions ==
    { [RawEntities EXCEPT !.LenderName = lender, !.Borrower = borrowers,
                          !.RidersPresent = riders] :
          lender \in RawLenders, borrowers \in RawBorrowerLists, riders \in RawRiderLists }

\* The responses tried: an object with both keys for each raw extraction, and
\* the malformed ones (not JSON, not an object, a key missing, entities that
\* are not an object)
RawResponses ==
    { Response(e, "Deed of trust") : e \in RawExtractions }
        \cup { NotParsable, NotJson,
               [Response(Lender("ACME BANK", 95), "Deed of trust") EXCEPT !.keys = {"entities"}],
               [Response(Lender("ACME BANK", 95), "Deed of trust") EXCEPT !.keys = {"summary"}],
               [Response(Lender("ACME BANK", 95), "Deed of trust") EXCEPT !.keys = {}],
               Response(NonDict("string"), "Deed of trust"),
               Response(NonDict("list"), "Deed of trust") }

\* A response has come back for a capture: the call of
\* analyze_mortgage_document is at the point where it reads it (line 246)
InitParse ==
    \E response \in RawResponses :
        /\ family = "raw"
        /\ UI_CONFIDENCE_MIN = DefaultThreshold
        /\ ResultsWindow(<<>>, DefaultThreshold)
        /\ workflows = SetToBag({Task("analyze", 0)})
        /\ started = 1
        /\ returned = <<[response |-> response, result |-> dummy_result]>>
        /\ cv_object = <<>>

\* Lines 246-577 of analyze_mortgage_document: the result it returns
analysis_returned(task) ==
    /\ task.pc = "analyze"
    /\ returned' = [returned EXCEPT
                       ![1].result = analyze_mortgage_document(returned[1].response)]
    /\ workflows' = moved(task, EmptyBag)
    /\ UNCHANGED <<all_analysis_results, UI_CONFIDENCE_MIN, combined_entities,
                   entity_entries, started, family, prior_results, cv_object, edited>>

NextParse == \E task \in BagToSet(workflows) : analysis_returned(task)

\* The parsing of one response
SpecParse == InitParse /\ [][NextParse]_vars

\* A session over documents that show scalar fields
InitEdit == Init /\ family = "scalars"

NextEdit ==
    \/ Next
    \/ \E texts \in EditedTexts(entity_entries) : _save_edits_to_global_entities(texts)
    \/ NextSettings

\* Capture workflows with Save Edits and changes of the threshold between them
SpecEdit == InitEdit /\ [][NextEdit]_vars
-----------------------------------------------------------------------------
(* ui/results_window.py: the projection of a record *)

\* A results window that holds a record to display and has not displayed it:
\* the record of any entry of a family, under any threshold the settings
\* accept, 0.96 among them
InitProject ==
    \E f \in Families, t \in Thresholds \cup {96} :
        \E h \in {x \in Histories(f) : Len(x) = 1} :
            /\ family = f
            /\ UI_CONFIDENCE_MIN = t
            /\ all_analysis_results = h
            /\ prior_results = h
            /\ combined_entities = h[1].entities
            /\ entity_entries = << >>
            /\ workflows = EmptyBag
            /\ started = 0
            /\ returned = <<Unanswered(h[1])>>
            /\ cv_object = <<own_objects(1)>>
            /\ edited = "None"

\* Line 729: self._display_entity_fields(self.combined_entities)
displayed ==
    /\ entity_entries = << >>
    /\ entity_entries' = _display_entity_fields(combined_entities, all_analysis_results,
                                                UI_CONFIDENCE_MIN)
    /\ UNCHANGED <<all_analysis_results, UI_CONFIDENCE_MIN, combined_entities, workflows,
                   started, family, returned, prior_results, cv_object, edited>>

\* The projection of one record
SpecProject == InitProject /\ [][displayed]_vars

\* The text of a time in one of the forms the docstring of
\* _try_parse_time_to_hhmmss lists (lines 633-638): 14:27 and 14:27:59,
\* 14.27, 1427 and 142759, 2 PM; s < 0 is a time without seconds
time_text(form, h, m, s, marker) ==
    LET hour == IF h < 10 THEN <<DigitChars[h + 1]>> ELSE two_digits(h)
        sec(sep) == IF s < 0 THEN << >> ELSE sep \o two_digits(s)
    IN  CASE form = "colon"  -> hour \o <<":">> \o two_digits(m) \o sec(<<":">>) \o marker
          [] form = "dot"    -> hour \o <<".">> \o two_digits(m) \o sec(<<".">>) \o marker
          [] form = "digits" -> two_digits(h) \o two_digits(m) \o sec(<< >>) \o marker
          [] form = "hour"   -> hour \o marker

\* The values of RecordingTime handed to the normalizer: times of every
\* form, in and out of range, with and without AM or PM, and values that are
\* no time
TimeInputs ==
    {[form |-> form, h |-> h, m |-> m, s |-> s, marker |-> marker,
      value |-> Str(time_text(form, h, m, s, marker))] :
        form \in {"colon", "dot", "digits"},
        h \in {0, 1, 2, 9, 11, 12, 13, 23, 24, 25},
        m \in {0, 27, 59, 60, 99},
        s \in {-1, 0, 59, 60},
        marker \in {<< >>, <<" ", "A", "M">>, <<" ", "P", "M">>, <<" ", "p", "m">>,
                    <<" ", "p", ".", "m", ".">>}}
    \cup
    {[form |-> "hour", h |-> h, m |-> 0, s |-> -1, marker |-> marker,
      value |-> Str(time_text("hour", h, 0, -1, marker))] :
        h \in {0, 1, 2, 9, 11, 12, 13, 23, 24, 25},
        marker \in {<< >>, <<" ", "A", "M">>, <<" ", "P", "M">>, <<" ", "a", ".", "m", ".">>}}
    \cup
    {[form |-> "other", h |-> 0, m |-> 0, s |-> -1, marker |-> << >>, value |-> v] :
        v \in {None, Str(<< >>), Str(<<" ">>), Str(<<"N", "/", "A">>)}}

\* A RecordingTime about to be normalized
InitTime ==
    /\ family = "raw"
    /\ UI_CONFIDENCE_MIN = DefaultThreshold
    /\ all_analysis_results = <<dummy_result>>
    /\ prior_results = <<dummy_result>>
    /\ combined_entities = MortgageDocumentEntities
    /\ entity_entries = << >>
    /\ workflows = SetToBag({Task("normalize", 0)})
    /\ started = 1
    /\ \E input \in TimeInputs : returned = <<[response |-> input, result |-> None]>>
    /\ cv_object = << >>
    /\ edited = "None"

\* _normalize_entities, lines 847-853: normt = self._try_parse_time_to_hhmmss(rt.value)
time_normalized(task) ==
    /\ task.pc = "normalize"
    /\ returned' = [returned EXCEPT
                       ![1].result = _try_parse_time_to_hhmmss(returned[1].response.value)]
    /\ workflows' = moved(task, EmptyBag)
    /\ UNCHANGED <<all_analysis_results, UI_CONFIDENCE_MIN, combined_entities,
                   entity_entries, started, family, prior_results, cv_object, edited>>

\* The normalization of one time
SpecTime == InitTime /\ [][\E task \in BagToSet(workflows) : time_normalized(task)]_vars

\* The raw recording fields of a response: document numbers of five, seven
\* and eleven digits, of eighteen, of none, null and without a value; a MIN
\* that is absent, well-formed, or of the digits of a document number; book,
\* page, date and time present, "N/A" or null; either answer for the stamp
RecordingInputs ==
    {[RecordingDocumentNumber |-> rdn, MIN |-> min, RecordingBook |-> book,
      RecordingPage |-> page, RecordingDate |-> date, RecordingTime |-> time,
      RecordingStampPresent |-> stamp] :
        rdn \in {RawCV(v, 90) : v \in {Str(<<"1", "2", "3", "4", "5">>), Str(<<"2", "0", "2", "1", "-", "0", "0", "1", "2", "3", "4", "5">>), Str(<<" ", "1", "2", "3", "4", "5", "6", "7", " ">>), Str(<<"N", "/", "A">>), Str(<<"1", "0", "0", "0", "1", "2", "3", "4", "5", "6", "7", "8", "9", "0", "1", "2", "3", "4">>), Str(<<"A", "B", "C">>), None}}
                \cup {[confidence |-> 90]},
        min \in {RawCV(NA, 0), RawCV(Str(<<"1", "0", "0", "0", "1", "2", "3", "-", "4", "5", "6", "7", "8", "9", "0", "1", "2", "3", "-", "4">>), 95), RawCV(Str(<<"1", "2", "3", "4", "5", "6", "7">>), 80)},
        book \in {RawCV(NA, 0), RawCV(Str(<<"1", "2", "3">>), 90), RawCV(None, 0)},
        page \in {RawCV(NA, 0), RawCV(Str(<<"7", "-", "9">>), 90)},
        date \in {RawCV(Str(<<"n", "/", "a">>), 0), RawCV(Str(<<"1", "/", "5", "/", "2", "0", "2", "1">>), 90), RawCV(None, 0)},
        time \in {RawCV(NA, 0), RawCV(Str(<<"2", ":", "2", "7", " ", "P", "M">>), 90), RawCV(None, 0)},
        stamp \in {RawCV(Str(<<"N", "o">>), 90), RawCV(Str(<<"Y", "e", "s">>), 90)}}

\* A response whose recording fields are about to be sanitized
InitRecording ==
    /\ family = "raw"
    /\ UI_CONFIDENCE_MIN = DefaultThreshold
    /\ all_analysis_results = <<dummy_result>>
    /\ prior_results = <<dummy_result>>
    /\ combined_entities = MortgageDocumentEntities
    /\ entity_entries = << >>
    /\ workflows = SetToBag({Task("sanitize", 0)})
    /\ started = 1
    /\ \E raw \in RecordingInputs : returned = <<[response |-> raw, result |-> raw]>>
    /\ cv_object = << >>
    /\ edited = "None"

\* analyze_mortgage_document, lines 464-566
recording_sanitized(task) ==
    /\ task.pc = "sanitize"
    /\ returned' = [returned EXCEPT ![1].result = recording_fields(returned[1].response)]
    /\ workflows' = moved(task, EmptyBag)
    /\ UNCHANGED <<all_analysis_results, UI_CONFIDENCE_MIN, combined_entities,
                   entity_entries, started, family, prior_results, cv_object, edited>>

\* The sanitation of the recording fields of one response
SpecRecording ==
    InitRecording /\ [][\E task \in BagToSet(workflows) : recording_sanitized(task)]_vars

\* The party names handed to the sanitizer: nothing or punctuation first, then
\* no, one or two role labels, then a name, a role word or nothing, then
\* nothing or a marital descriptor
NameInputs ==
    {Str(lead \o label \o name \o tail) :
        lead  \in {<< >>, <<":", " ">>, <<"-", " ">>, <<",", " ">>},
        label \in {<< >>, <<"B", "o", "r", "r", "o", "w", "e", "r", ":", " ">>, <<"T", "h", "e", " ", "M", "o", "r", "t", "g", "a", "g", "o", "r", "s", " ", "-", " ">>,
                   <<"O", "w", "n", "e", "r", " ">>, <<"T", "R", "U", "S", "T", "O", "R", ";">>,
                   <<"B", "o", "r", "r", "o", "w", "e", "r", ":", " ", "O", "w", "n", "e", "r", ":", " ">>},
        name  \in {<<"J", "o", "h", "n", " ", "S", "m", "i", "t", "h">>, <<"M", "a", "r", "y", " ", " ", "J", "o", "n", "e", "s">>,
                   << >>, <<"B", "o", "r", "r", "o", "w", "e", "r">>},
        tail  \in {<< >>, <<",", " ", "m", "a", "r", "r", "i", "e", "d">>, <<";", " ", "H", "u", "s", "b", "a", "n", "d">>}}

\* A party name about to be sanitized
InitName ==
    /\ family = "raw"
    /\ UI_CONFIDENCE_MIN = DefaultThreshold
    /\ all_analysis_results = <<dummy_result>>
    /\ prior_results = <<dummy_result>>
    /\ combined_entities = MortgageDocumentEntities
    /\ entity_entries = << >>
    /\ workflows = SetToBag({Task("sanitize_name", 0)})
    /\ started = 1
    /\ \E raw \in NameInputs : returned = <<[response |-> raw, result |-> raw]>>
    /\ cv_object = << >>
    /\ edited = "None"

\* Line 298: sanitized_name = self._sanitize_borrower_name(name_val)
name_sanitized(task) ==
    /\ task.pc = "sanitize_name"
    /\ returned' = [returned EXCEPT ![1].result = sanitized_name(returned[1].response)]
    /\ workflows' = moved(task, EmptyBag)
    /\ UNCHANGED <<all_analysis_results, UI_CONFIDENCE_MIN, combined_entities,
                   entity_entries, started, family, prior_results, cv_object, edited>>

\* The sanitation of one party name
SpecName == InitName /\ [][\E task \in BagToSet(workflows) : name_sanitized(task)]_vars
-----------------------------------------------------------------------------
(* Claims *)

\* C1: for every history and every configured threshold t, 0 included, the
\* merged LenderName (a scalar field) is the value of a non-error capture that
\* is valid and has confidence >= t, and no such capture has a strictly higher
\* confidence; with no such capture the merged field is the default N/A.
C1_ScalarFromBestCaptureAtAnyThreshold ==
    LET t == UI_CONFIDENCE_MIN
        eligible == {i \in 1..Len(prior_results) :
                        /\ ~HasError(prior_results[i])
                        /\ _is_value_valid(prior_results[i].entities.LenderName.value)
                        /\ prior_results[i].entities.LenderName.confidence >= t}
    IN  IF eligible = {}
        THEN combined_entities.LenderName = MortgageDocumentEntities.LenderName
        ELSE \E i \in eligible :
                /\ combined_entities.LenderName = prior_results[i].entities.LenderName
                /\ \A k \in eligible :
                       prior_results[k].entities.LenderName.confidence
                           <= prior_results[i].entities.LenderName.confidence

\* C2: when two or more non-error entries of the history hold valid LenderName
\* values of the same confidence, that confidence being the highest and meeting
\* the configured threshold, the merged record holds the value of the earliest
\* of them, also after back-propagation has run for each capture.
C2_TieGoesToEarliestCapture ==
    LET t == UI_CONFIDENCE_MIN
        eligible == {i \in 1..Len(prior_results) :
                        /\ ~HasError(prior_results[i])
                        /\ _is_value_valid(prior_results[i].entities.LenderName.value)
                        /\ prior_results[i].entities.LenderName.confidence >= t}
        top == {i \in eligible : \A k \in eligible :
                   prior_results[k].entities.LenderName.confidence
                       <= prior_results[i].entities.LenderName.confidence}
    IN  Cardinality(top) >= 2 =>
            combined_entities.LenderName.value =
                prior_results[CHOOSE i \in top : \A k \in top : i <= k].entities.LenderName.value

\* C3: error captures contribute nothing: the merged record and the projected
\* rider string are those of the same history with every error capture removed.
C3_ErrorCapturesContributeNothing ==
    LET kept  == SelectSeqBy(prior_results, LAMBDA r : ~HasError(r))
        clean == _combine_analysis_results(kept, UI_CONFIDENCE_MIN)
    IN  /\ combined_entities = clean.combined
        /\ riders_value_str(combined_entities.RidersPresent, all_analysis_results,
                            UI_CONFIDENCE_MIN)
             = riders_value_str(clean.combined.RidersPresent, clean.results, UI_CONFIDENCE_MIN)
        /\ entity_entries = _display_entity_fields(clean.combined, clean.results,
                                                   UI_CONFIDENCE_MIN)

\* C3 witness: a history in which an error entry holds a valid LenderName that
\* would meet the threshold and differs from the merged one, next to a
\* non-error entry whose value was merged, and the merge has run.
C3_Witness ==
    /\ \E i \in 1..Len(prior_results) :
          /\ HasError(prior_results[i])
          /\ _is_value_valid(prior_results[i].entities.LenderName.value)
          /\ prior_results[i].entities.LenderName.confidence
                 >= merge_threshold(UI_CONFIDENCE_MIN)
          /\ prior_results[i].entities.LenderName.value # combined_entities.LenderName.value
    /\ _is_value_valid(combined_entities.LenderName.value)

\* C4: in a run of the capture workflow at a fixed threshold, without edits and
\* without a new session, once the merged record holds a valid LenderName with
\* confidence c >= threshold, every later step of a capture (a result, an error
\* result, a failure) leaves a valid LenderName with confidence >= c.
C4_MergedScalarIsNeverLost ==
    [][ ( /\ _is_value_valid(combined_entities.LenderName.value)
          /\ combined_entities.LenderName.confidence >= UI_CONFIDENCE_MIN )
        => ( /\ _is_value_valid(combined_entities'.LenderName.value)
             /\ combined_entities'.LenderName.confidence
                    >= combined_entities.LenderName.confidence ) ]_vars

\* C5: duplicate-capture idempotence: the merge of a history of a capture and
\* an equal copy of it is the merge of the history of the capture alone.
C5_DuplicateCaptureIdempotence ==
    ( /\ Len(prior_results) = 2
      /\ ~HasError(prior_results[1])
      /\ ~HasError(prior_results[2])
      /\ prior_results[1].entities = prior_results[2].entities )
    => combined_entities =
           _combine_analysis_results(<<prior_results[1]>>, UI_CONFIDENCE_MIN).combined

\* C6: the merge of a history of one non-error capture c returns, for every
\* field of c whose value is valid and whose confidence meets the threshold,
\* the value and the confidence c holds, LegalDescriptionPresent and
\* LegalDescriptionDetail included.
C6_SingleCaptureMergeIsTheCapture ==
    ( Len(prior_results) = 1 /\ ~HasError(prior_results[1]) )
    => \A f \in {"LenderName", "LegalDescriptionPresent", "LegalDescriptionDetail"} :
           ( /\ _is_value_valid(prior_results[1].entities[f].value)
             /\ prior_results[1].entities[f].confidence >= UI_CONFIDENCE_MIN )
           => combined_entities[f] = prior_results[1].entities[f]


\* C7: once every capture of a run has gone through the workflow and none
\* has failed, the merged legal description is made of every distinct valid
\* detail text some capture returned with confidence >= threshold, once each,
\* in capture order, a blank line between them: none is lost to a later
\* capture of higher confidence. Texts that are equal up to whitespace and
\* case are one segment, and any of them may stand for it.
C7_EverySegmentIsKept ==
    LET segs  == legal_segments([i \in 1..Len(returned) |-> returned[i].result],
                                UI_CONFIDENCE_MIN)
        texts == {returned[i].result.entities.LegalDescriptionDetail.value :
                     i \in 1..Len(returned)}
    IN  ( /\ workflows = EmptyBag
          /\ \A i \in 1..Len(returned) : ~HasError(returned[i].result)
          /\ segs # <<>> )
        => \E shown \in [1..Len(segs) -> texts] :
               /\ \A i \in 1..Len(segs) :
                      normalize_segment(shown[i]) = normalize_segment(segs[i].text)
               /\ combined_entities.LegalDescriptionDetail.value =
                      JoinSegments([i \in 1..Len(segs) |-> [text |-> shown[i], conf |-> 0]])

\* C8: for every party key, the aliases of the merged party are the union of
\* the alias lists of all entries of that key in non-error captures whose name
\* and alias confidences meet the threshold, whatever the order of the captures
\* and whichever entry has the higher name confidence (aliases are compared
\* without the blanks around them, so that a duplicate counts once).
C8_AliasesAreTheUnion ==
    LET t == UI_CONFIDENCE_MIN
        refs == borrower_refs(prior_results)
        listed(ref) == /\ _is_value_valid(borrower_at(prior_results, ref).Name.value)
                       /\ borrower_at(prior_results, ref).Name.confidence >= t
        key_of(ref) == _normalize_string_for_comparison(
                           borrower_at(prior_results, ref).Name.value)
        stripped(list) == {Strip(list[i]) : i \in 1..Len(list)} \ {""}
        union(k) == UNION {stripped(borrower_at(prior_results, refs[m]).Alias.value) :
                              m \in {n \in 1..Len(refs) :
                                        /\ listed(refs[n])
                                        /\ key_of(refs[n]) = k
                                        /\ borrower_at(prior_results, refs[n]).Alias.confidence
                                               >= t}}
        merged == combined_entities.Borrower.value
    IN  \A n \in 1..Len(refs) :
            listed(refs[n]) =>
                \E i \in 1..Len(merged) :
                    /\ _normalize_string_for_comparison(merged[i].Name.value) = key_of(refs[n])
                    /\ stripped(merged[i].Alias.value) = union(key_of(refs[n]))

\* C9: for every party key, the relationship of the merged party (and likewise
\* the tenancy) is the valid value of the highest confidence among the values
\* meeting the threshold of all entries of that key, whichever entry gave the
\* name: a higher name confidence without a relationship erases none.
C9_RelationshipArbitratedOnItsOwn ==
    LET t == UI_CONFIDENCE_MIN
        refs == borrower_refs(prior_results)
        listed(ref) == /\ _is_value_valid(borrower_at(prior_results, ref).Name.value)
                      /\ borrower_at(prior_results, ref).Name.confidence >= t
        key_of(ref) == _normalize_string_for_comparison(
                           borrower_at(prior_results, ref).Name.value)
        offers(k, sub_field) ==
            {borrower_at(prior_results, refs[n])[sub_field] : n \in
                {m \in 1..Len(refs) :
                    /\ listed(refs[m])
                    /\ key_of(refs[m]) = k
                    /\ _is_value_valid(borrower_at(prior_results, refs[m])[sub_field].value)
                    /\ borrower_at(prior_results, refs[m])[sub_field].confidence >= t}}
        merged == combined_entities.Borrower.value
    IN  \A n \in 1..Len(refs) : \A sub_field \in {"Relationship", "TenantInformation"} :
            ( listed(refs[n]) /\ offers(key_of(refs[n]), sub_field) # {} ) =>
                \E i \in 1..Len(merged) :
                    /\ _normalize_string_for_comparison(merged[i].Name.value) = key_of(refs[n])
                    /\ merged[i][sub_field] \in offers(key_of(refs[n]), sub_field)
                    /\ \A o \in offers(key_of(refs[n]), sub_field) :
                           o.confidence <= merged[i][sub_field].confidence

\* C10: from raw extraction to merged record, the merged rider list holds one
\* entry per canonical rider name, for exactly the names for which a non-error
\* capture reported a rider with SignedAttached = Yes, a name with a canonical
\* form in the allow-list and a name confidence >= threshold, under the highest
\* such name confidence; it stays when later captures report no riders.
C10_MergedRidersAreTheSignedOnes ==
    LET t == UI_CONFIDENCE_MIN
        reported(n) ==
            UNION {{r.Name.confidence : r \in
                       {x \in SeqToSet(returned[i].response.entities.RidersPresent.value) :
                           /\ _normalize_yes_no(x.SignedAttached.value) = "Yes"
                           /\ _canonicalize_rider_name(x.Name.value) = n
                           /\ x.Name.confidence >= t}} :
                   i \in {k \in 1..Len(returned) :
                             /\ returned[k].response.shape = "object"
                             /\ ~HasError(returned[k].result)}}
        merged == combined_entities.RidersPresent.value
        at(n) == {i \in 1..Len(merged) : merged[i].Name.value = n}
    IN  \A n \in SeqToSet(RIDER_ALLOWLIST) :
            IF reported(n) = {} THEN at(n) = {}
            ELSE /\ Cardinality(at(n)) = 1
                 /\ \A i \in at(n) : merged[i].Name.confidence = SetMax(reported(n))

\* C11: a signed rider whose valid name has no canonical form in the allow-list
\* is never dropped and never takes a canonical slot: when a non-error entry of
\* the history holds such a rider with name confidence >= threshold, the rider
\* field is projected and its string is made of that raw name and of the
\* canonical names of the signed riders of the merged record, each once, sorted.
C11_UnclassifiedRidersAreShown ==
    LET t == UI_CONFIDENCE_MIN
        signed(r) == /\ _is_value_valid(r.Name.value)
                     /\ Lower(Strip(r.SignedAttached.value)) = "yes"
                     /\ r.Name.confidence >= t
        classified(r) == /\ _canonicalize_rider_name(r.Name.value) # "None"
                         /\ _canonicalize_rider_name(r.Name.value) \in SeqToSet(RIDER_ALLOWLIST)
        unclassified ==
            UNION {{r.Name.value : r \in {x \in SeqToSet(prior_results[i].entities.RidersPresent.value) :
                                            signed(x) /\ ~classified(x)}} :
                   i \in {k \in 1..Len(prior_results) : ~HasError(prior_results[k])}}
        canonical ==
            {_canonicalize_rider_name(r.Name.value) :
                r \in {x \in SeqToSet(combined_entities.RidersPresent.value) :
                          signed(x) /\ classified(x)}}
    IN  unclassified # {} =>
            /\ "Checked Riders" \in DOMAIN entity_entries
            /\ entity_entries["Checked Riders"] = Join(Sorted(unclassified \cup canonical), ", ")
            /\ \A i \in 1..Len(combined_entities.RidersPresent.value) :
                   combined_entities.RidersPresent.value[i].Name.value \notin unclassified

\* C11 witness: the merge has run over a history that holds a signed rider
\* without a canonical form next to a signed canonical one, and both are shown.
C11_Witness ==
    /\ \E i \in 1..Len(prior_results) :
          /\ ~HasError(prior_results[i])
          /\ \E k \in 1..Len(prior_results[i].entities.RidersPresent.value) :
                /\ prior_results[i].entities.RidersPresent.value[k].Name.value = "Solar Rider"
                /\ prior_results[i].entities.RidersPresent.value[k].Name.confidence
                       >= UI_CONFIDENCE_MIN
    /\ "Checked Riders" \in DOMAIN entity_entries
    /\ entity_entries["Checked Riders"] = "Condominium Rider, Solar Rider"

\* C12: a rider whose lowercased name the alias table maps to the empty string
\* (an ignored label) is rejected: for every history the rider field is
\* projected, and reads, as it would over the same history without the
\* riders of ignored labels, whatever their confidence and signed flag.
C12_IgnoredLabelsAreRejected ==
    LET ignored(r) == RIDER_ALIASES(LowerRider(NormalizeRiderSpacing(Strip(r.Name.value)))) = ""
        without(res) ==
            [res EXCEPT !.entities.RidersPresent.value = SelectSeqBy(@, LAMBDA r : ~ignored(r))]
        clean == _combine_analysis_results(
                     [i \in 1..Len(prior_results) |-> without(prior_results[i])],
                     UI_CONFIDENCE_MIN)
        shown == _display_entity_fields(clean.combined, clean.results, UI_CONFIDENCE_MIN)
    IN  /\ "Checked Riders" \in DOMAIN entity_entries <=> "Checked Riders" \in DOMAIN shown
        /\ "Checked Riders" \in DOMAIN entity_entries =>
               entity_entries["Checked Riders"] = shown["Checked Riders"]

\* C13: the merge is a pure function of its inputs: a call of the merge over a
\* history leaves every record of every entry of the history, the alias list,
\* the relationship and the tenancy of each party included, as it was before
\* the call.
C13_MergeLeavesTheHistoryAlone ==
    all_analysis_results = prior_results

\* C14: no decision is cached across threshold changes: whatever thresholds the
\* history was merged at before, the merged record and the projection at the
\* threshold now configured are those a merge at that threshold gives over an
\* untouched copy of the same history.
C14_NothingCachedAcrossThresholds ==
    LET untouched == [i \in 1..Len(returned) |-> returned[i].result]
        fresh     == _combine_analysis_results(untouched, UI_CONFIDENCE_MIN)
    IN  /\ combined_entities = fresh.combined
        /\ entity_entries = _display_entity_fields(fresh.combined, fresh.results,
                                                   UI_CONFIDENCE_MIN)

\* C15: a user edit has the highest priority: when Save Edits has replaced the
\* displayed LenderName by a valid value v, the next merge and projection over
\* the history show v, whichever capture the displayed value came from and
\* whatever confidence the last entry holds for the field.
C15_EditIsShownByTheNextMerge ==
    [][(edited # "None" /\ edited' = "None")
          => /\ combined_entities'.LenderName.value = edited
             /\ "Lender" \in DOMAIN entity_entries'
             /\ entity_entries'["Lender"] = edited]_vars

\* C16: Save Edits overwrites the last entry of the history only: after any
\* sequence of captures with back-propagation, every entry other than the last
\* one is after Save Edits as it was immediately before.
C16_EditTouchesTheLastEntryOnly ==
    [][(\E texts \in EditedTexts(entity_entries) : _save_edits_to_global_entities(texts))
          => \A i \in 1..(Len(all_analysis_results) - 1) :
                 all_analysis_results'[i] = all_analysis_results[i]]_vars

\* C17: whatever numeric confidences the raw extraction carries, every
\* confidence of the parsed record lies in [0.0, 1.0]: those of the scalar
\* fields, of the Borrower and RidersPresent lists, and of every sub-field of
\* every party and rider.
C17_ParsedConfidencesAreInRange ==
    workflows = EmptyBag =>
        LET entities   == returned[1].result.entities
            InRange(c) == 0 <= c /\ c <= 100
        IN  /\ \A f \in DOMAIN entities : InRange(entities[f].confidence)
            /\ \A i \in 1..Len(entities.Borrower.value) :
                   \A sub \in {"Name", "Alias", "Relationship", "TenantInformation"} :
                       InRange(entities.Borrower.value[i][sub].confidence)
            /\ \A i \in 1..Len(entities.RidersPresent.value) :
                   \A sub \in {"Name", "Present", "SignedAttached"} :
                       InRange(entities.RidersPresent.value[i][sub].confidence)

\* C18: after parsing any raw extraction object no field of the record holds
\* null: not the value of a scalar field, not the value of a sub-field of a
\* party, not the value of a sub-field of a rider, also when the raw JSON
\* gives null as the value.
C18_NoParsedValueIsNull ==
    workflows = EmptyBag =>
        LET entities == returned[1].result.entities
        IN  /\ \A f \in ScalarFields : entities[f].value # "None"
            /\ \A i \in 1..Len(entities.Borrower.value) :
                   \A sub \in {"Name", "Relationship", "TenantInformation"} :
                       entities.Borrower.value[i][sub].value # "None"
            /\ \A i \in 1..Len(entities.RidersPresent.value) :
                   \A sub \in {"Name", "Present", "SignedAttached"} :
                       entities.RidersPresent.value[i][sub].value # "None"

\* C19: a field-level anomaly never fails the capture: for a raw object with
\* both keys and object-valued entities in which exactly one field is of the
\* wrong type (LenderName, Borrower or RidersPresent is a string or a list in
\* place of the object, or the confidence of a party sub-field is not a
\* number), the result has no error, every other field is parsed as it is
\* without the anomaly, and a field that is not an object is absent.
C19_FieldAnomalyDoesNotFailTheCapture ==
    LET response == returned[1].response
        result   == returned[1].result
        raw      == response.entities
        not_object == {f \in {"LenderName", "Borrower", "RidersPresent"} : ~IsDict(raw[f])}
        text_confidence ==
            IF ~IsDict(raw.Borrower) THEN {}
            ELSE IF \E i \in 1..Len(raw.Borrower.value) :
                       \E sub \in {"Name", "Alias", "Relationship", "TenantInformation"} :
                           ~IsNumber(raw.Borrower.value[i][sub])
            THEN {"Borrower"} ELSE {}
        anomalous == not_object \cup text_confidence
        without   == [response EXCEPT
                         !.entities = [f \in DOMAIN raw |->
                                          IF f \in anomalous THEN RawEntities[f] ELSE raw[f]]]
    IN  (/\ workflows = EmptyBag
         /\ response.shape = "object"
         /\ response.keys = {"entities", "summary"}
         /\ IsDict(raw)
         /\ Cardinality(anomalous) = 1)
        => /\ ~HasError(result)
           /\ \A f \in DOMAIN raw \ anomalous :
                  result.entities[f] = analyze_mortgage_document(without).entities[f]
           /\ \A f \in not_object : result.entities[f] = MortgageDocumentEntities[f]

\* C20: malformed input is rejected as a whole: for a response that is not
\* JSON, is not a JSON object, lacks the entities key or the summary key, or
\* has entities that are not an object, the call returns a result (it does
\* not raise) with a non-empty error, no summary and the all-default record.
C20_MalformedResponseIsRejectedWhole ==
    LET response == returned[1].response
        result   == returned[1].result
    IN  (/\ workflows = EmptyBag
         /\ \/ response.shape # "object"
            \/ "entities" \notin response.keys
            \/ "summary" \notin response.keys
            \/ ~IsDict(response.entities))
        => /\ DOMAIN result = {"entities", "summary", "error", "document_id"}
           /\ HasError(result)
           /\ result.summary = ""
           /\ result.entities = MortgageDocumentEntities

\* C20 witness: a response whose entities hold a lender that would be parsed
\* but whose summary key is missing has been turned down.
C20_Witness ==
    /\ workflows = EmptyBag
    /\ returned[1].response.shape = "object"
    /\ returned[1].response.keys = {"entities"}
    /\ returned[1].response.entities.LenderName = RawCV("ACME BANK", 95)
    /\ returned[1].result.error = "Malformed AI response: missing entities or summary."
    /\ returned[1].result.entities.LenderName = ConfidenceValue("N/A", 0)


C24_TimeIsRejectedOrInRange ==
    workflows = EmptyBag =>
        LET in  == returned[1].response
            out == returned[1].result
            letters == SeqToSet(str_upper(in.marker))
            hh == IF "A" \in letters /\ in.h = 12 THEN 0
                  ELSE IF "P" \in letters /\ in.h < 12 THEN in.h + 12
                  ELSE in.h
            ss == IF in.s < 0 THEN 0 ELSE in.s
            number(i) == int(SubSeq(out.chars, i, i + 1))
            timed == \/ in.form \in {"colon", "dot", "digits"}
                     \/ in.form = "hour" /\ in.marker # << >>
        IN  /\ out # None =>
                   /\ out.type = "str"
                   /\ Len(out.chars) = 8
                   /\ \A i \in {1, 2, 4, 5, 7, 8} : IsDigit(out.chars[i])
                   /\ out.chars[3] = ":" /\ out.chars[6] = ":"
                   /\ number(1) <= 23 /\ number(4) <= 59 /\ number(7) <= 59
                   /\ _try_parse_time_to_hhmmss(out) = out
            /\ timed /\ (in.m > 59 \/ ss > 59 \/ hh > 23) => out = None
            /\ timed /\ in.m <= 59 /\ ss <= 59 /\ hh <= 23 =>
                   /\ out # None
                   /\ number(1) = hh /\ number(4) = in.m /\ number(7) = ss

\* An afternoon time of the 12-hour clock has been normalized
C24_Witness ==
    /\ workflows = EmptyBag
    /\ returned[1].response.form = "colon"
    /\ returned[1].response.marker = <<" ", "P", "M">>
    /\ returned[1].response.h = 2
    /\ returned[1].response.m = 27
    /\ returned[1].result = Str(<<"1", "4", ":", "2", "7", ":", "0", "0">>)

\* C22: once the recording fields of a response are sanitized and normalized,
\* RecordingStampPresent is "Yes" if and only if one of
\* RecordingDocumentNumber, RecordingBook, RecordingPage, RecordingDate and
\* RecordingTime holds a value that is not null and not "N/A", whatever the
\* response gave for RecordingStampPresent.
C22_StampIsDerivedFromTheRecordingFields ==
    workflows = EmptyBag =>
        LET out == returned[1].result
            present(f) == /\ out[f].value # None
                          /\ str_upper(str_strip(out[f].value.chars)) # NA.chars
        IN  (out.RecordingStampPresent.value = Str(<<"Y", "e", "s">>))
                <=> \E f \in {"RecordingDocumentNumber", "RecordingBook", "RecordingPage",
                               "RecordingDate", "RecordingTime"} : present(f)

\* C23: after the two passes, RecordingDocumentNumber is "N/A" (with
\* whatever confidence), or a text of at least six digits that are not
\* eighteen and not the digits of the MIN extracted; a raw value of fewer than
\* six digits ends as "N/A".
C23_DocumentNumberIsSanitized ==
    workflows = EmptyBag =>
        LET rdn == returned[1].result.RecordingDocumentNumber
            digits == _digits_only(rdn.value)
            min_digits == _digits_only(parsed_text_field(returned[1].response.MIN).value)
        IN  \/ rdn.value = NA
            \/ /\ rdn.value.type = "str"
               /\ Len(digits) >= 6
               /\ Len(digits) # 18
               /\ digits # min_digits

\* C25: the name a sanitation returns is empty, or it is no bare role word,
\* does not begin with a role label, and is returned unchanged by a second
\* sanitation; so also for an input with punctuation before the role label.
C25_SanitizedNameIsAFixpoint ==
    workflows = EmptyBag =>
        LET out == returned[1].result
        IN  \/ out = Str(<< >>)
            \/ /\ out.chars \notin RoleWords \cup {w \o <<"S">> : w \in RoleWords}
               /\ role_label_end(out.chars) = 0
               /\ sanitized_name(out) = out

\* C26: once a capture that succeeded is reconciled and propagated, every
\* earlier entry of a finished capture without error holds, for LenderName and
\* LegalDescriptionDetail (LegalDescriptionPresent follows the latter), a
\* value as good as the best one captured in the whole history: if some
\* capture without error returned a valid value, the entry's value is valid
\* and its confidence is at least that of every valid value captured.
C26_EarlierEntriesHoldTheBestKnownAnswer ==
    [][\A task \in BagToSet(workflows), response \in Responses(family) :
          (/\ analysis_completed(task, response)
           /\ task.placeholder_index \in 1..Len(all_analysis_results)
           /\ ~HasError(analyze_mortgage_document(response)))
          => \A i \in 1..(task.placeholder_index - 1),
                f \in ScalarFields \ {"LegalDescriptionPresent"} :
                 (/\ ~HasError(all_analysis_results'[i])
                  /\ all_analysis_results'[i].summary # "Processing...") =>
                     \A k \in 1..Len(returned') :
                         (/\ ~HasError(returned'[k].result)
                          /\ _is_valid_value(returned'[k].result.entities[f].value))
                         => /\ _is_valid_value(all_analysis_results'[i].entities[f].value)
                            /\ all_analysis_results'[i].entities[f].confidence
                                   >= returned'[k].result.entities[f].confidence]_vars

\* C27: when a capture, successful or not, is reconciled and propagated, no
\* scalar field of another entry loses confidence, and a field for which the
\* capture has no valid value is left as it was.
C27_PropagationOnlyUpgrades ==
    [][\A task \in BagToSet(workflows), response \in Responses(family) :
          (/\ analysis_completed(task, response)
           /\ task.placeholder_index \in 1..Len(all_analysis_results))
          => \A i \in 1..Len(all_analysis_results), f \in ScalarFields :
                 i # task.placeholder_index =>
                     /\ all_analysis_results'[i].entities[f].confidence
                            >= all_analysis_results[i].entities[f].confidence
                     /\ ~_is_valid_value(analyze_mortgage_document(response).entities[f].value)
                            => all_analysis_results'[i].entities[f]
                                   = all_analysis_results[i].entities[f]]_vars
\* C28: with several capture workflows in flight, the outcome of a workflow
\* that has appended its placeholder (the analysis result, or the error record
\* of an exception) takes the place of that placeholder and of no other entry:
\* the history keeps its length and every other entry keeps its name, its
\* summary and its error; and once the last workflow has finished, no entry of
\* the history is a placeholder still (one that reads "Processing..." without
\* a response of the analysis behind it).
C28_OutcomeReplacesItsOwnPlaceholder ==
    [][\A task \in BagToSet(workflows) :
          (/\ task.pc = "analyze"
           /\ \/ workflow_failed(task)
              \/ \E response \in Responses(family) : analysis_completed(task, response))
          => /\ Len(all_analysis_results') = Len(all_analysis_results)
             /\ \A i \in 1..Len(all_analysis_results) :
                    i # task.placeholder_index =>
                        /\ all_analysis_results'[i].document_id
                               = all_analysis_results[i].document_id
                        /\ all_analysis_results'[i].summary = all_analysis_results[i].summary
                        /\ all_analysis_results'[i].error = all_analysis_results[i].error
             /\ workflows' = EmptyBag =>
                    \A i \in 1..Len(all_analysis_results') :
                        all_analysis_results'[i].summary = "Processing..."
                            => returned'[i].response # NoResponse]_vars
\* C29: a new session is isolated from the captures of the session before.
\* When a workflow that appended its placeholder before Start New Session
\* finishes after it, with a result or with an error record, the history of
\* the new session is left as it is: nothing is appended to it and none of
\* its entries is overwritten or changed.
C29_ResetIsolatesSessions ==
    [][\A task \in BagToSet(workflows) :
          (/\ task.before_reset
           /\ \/ workflow_failed(task)
              \/ \E response \in Responses(family) : analysis_completed(task, response))
          => all_analysis_results' = all_analysis_results]_vars

\* C30: in every reachable state, whatever the order of capture starts,
\* completions, failures, cancellations and new sessions, no two entries of the
\* history have the same document identifier.
C30_DocumentIdsAreDistinct ==
    \A i, j \in 1..Len(all_analysis_results) :
        i # j => all_analysis_results[i].document_id # all_analysis_results[j].document_id
====
